---- MODULE Spec2Model ----
(***************************************************************************)
(* Hybrid Student Learning Portal: the embedded-collection mutation        *)
(* methods of the Mongoose models (Discussion posts, Assignment            *)
(* submissions), the controllers that create documents, the activity      *)
(* logger, the relational handlers (enroll, createCourse, register,        *)
(* submitQuiz, getCourseStudents, getPlatformStats) and executeTransaction *)
(* as state machines.                                                      *)
(*                                                                         *)
(* Dates are integers (a clock `now` that only moves forward); an absent   *)
(* (undefined) field is the empty sequence None, a present one <<v>>.      *)
(* Fields that no condition of the code reads and no property is about     *)
(* (title, tags, created_at, submitted_at, file_path, ...) are left out of *)
(* the records.  Callers pass schema-valid values and MongoDB accepts the  *)
(* writes of save().                                                       *)
(***************************************************************************)
EXTENDS Integers, Sequences, FiniteSets, TLC

\* ------------------------------------------------------------------ bounds
MaxTime == 1            \* the clock runs over 0..MaxTime
MaxPosts == 2           \* addPost is offered while the thread has fewer posts
MaxMarks == 1           \* max_marks of the modelled assignment

\* ------------------------------------------------------------- input domains
Users == {2, 4}                          \* user_id values of post authors
RawContents == {" hello ", "hello", "world"}   \* content as sent by a caller
PostIds == 1..(MaxPosts + 1)             \* postId arguments of editPost
Students == {1, 2}                       \* student_id arguments (students A, B)
Texts == {"v1", "v2"}                    \* submissionData.submission_text
Grades == 0..(MaxMarks + 1)              \* gradeData.grade
Feedbacks == {"good", "redo"}            \* gradeData.feedback
Graders == {7}                           \* gradeData.graded_by
DueDates == {MaxTime - 1}                \* due_date: the last tick is past it
CourseIds == {1, 2}                      \* course_id values a request can name
Titles == {"", "Intro"}                  \* req.body.title
Bodies == {"", "text"}                   \* req.body.content / submission_content
SubmissionTypes == {"", "link"}          \* req.body.submission_type
Requests == {1, 2}                       \* two requests in flight

UserIds == Users \cup Students \cup Graders   \* every user_id a call names

None == <<>>
Some(v) == <<v>>

VARIABLES
  now,          \* the clock: what new Date() returns
  discussion,   \* the Discussion document object a handler holds (this)
  dstore,       \* the Discussion document as persisted in MongoDB
  dlast,        \* the last Discussion method call: its arguments and outcome
  dassigned,    \* history: the post_id values addPost has assigned so far
  assignment,   \* the Assignment document object a handler holds (this)
  astore,       \* the Assignment document as persisted in MongoDB
  alast,        \* the last Assignment method call: its arguments and outcome
  courses,      \* MySQL: the course_id values of the rows of courses
  discussions,  \* MongoDB: the documents created in collection discussions
  assignments,  \* MongoDB: the documents created in collection assignments
  clast,        \* the last create request of a controller and its response
  rmw,          \* per request: a load-mutate-save of a document in progress
  enrollments,  \* MySQL: the rows of table enrollments, in insertion order
  ereq,         \* per request: an enrollInCourse call in progress
  otable,       \* MySQL: per operation, the unique keys of the rows of its table
  oreq,         \* per request: a handler that writes a row and then logs
  quizzes,      \* MySQL: the quiz_id values of the rows of quizzes
  quiz_submissions,  \* MySQL: the rows of quiz_submissions, in insertion order
  qreq,         \* per request: the submitQuiz call it made and its response
  rowcounts,    \* the number of rows / documents each store holds, per collection
  plast,        \* the last getPlatformStats call: store availability, response
  committed,    \* MySQL: the rows that committed transactions have written
  checked_out,  \* MySQL pool: the number of connections handed out
  tx,           \* per request: an executeTransaction call in progress
  sdata,        \* MySQL: tables enrollments, quizzes, quiz_submissions of the summary
  slast,        \* the last getCourseStudents call and its response
  users,        \* MySQL: table users, the role of each user_id ("none": no row)
  activitylogs, \* MongoDB: the persisted ActivityLog documents
  lreq,         \* requests through a logActivity-wrapped route
  node_env,     \* process.env.NODE_ENV
  eresp,        \* the error response each request got
  proc          \* the server process: its resources and shutdown handlers

dvars == <<discussion, dstore, dlast, dassigned>>
avars == <<assignment, astore, alast>>
cvars == <<courses, discussions, assignments, clast>>
evars == <<enrollments, ereq>>
ovars == <<otable, oreq>>
qvars == <<quizzes, quiz_submissions, qreq>>
pvars == <<rowcounts, plast>>
tvars == <<committed, tx, checked_out>>
svars == <<sdata, slast>>
yvars == <<users, activitylogs, lreq, node_env, eresp, proc>>
xvars == <<ovars, qvars, pvars, tvars, svars, yvars>>
basevars == <<now, dvars, avars, cvars, rmw, evars>>
vars == <<now, discussion, dstore, dlast, dassigned, assignment, astore, alast,
          courses, discussions, assignments, clast, rmw, enrollments, ereq,
          otable, oreq, quizzes, quiz_submissions, qreq, rowcounts, plast,
          committed, tx, checked_out, sdata, slast, users, activitylogs, lreq,
          node_env, eresp, proc>>

\* ------------------------------------------------------------------ helpers
RECURSIVE MaxOf(_)
\* Math.max(...xs) on a non-empty set of numbers
MaxOf(S) ==
  LET x == CHOOSE y \in S : TRUE
  IN  IF S = {x} THEN x
      ELSE LET m == MaxOf(S \ {x}) IN IF x > m THEN x ELSE m

\* the String setter `trim: true` of the schemas
Trim(s) == IF s = " hello " THEN "hello" ELSE s

\* this.posts.map(p => p.post_id)
PostIdsOf(doc) == {doc.posts[i].post_id : i \in 1..Len(doc.posts)}

\* this.posts.find(p => p.post_id === postId): the index of the first match, 0 if none
FindPost(doc, postId) ==
  IF \E i \in 1..Len(doc.posts) : doc.posts[i].post_id = postId
  THEN CHOOSE i \in 1..Len(doc.posts) :
         /\ doc.posts[i].post_id = postId
         /\ \A j \in 1..(i - 1) : doc.posts[j].post_id # postId
  ELSE 0

\* ------------------------------------------------------- Discussion (model)
\* a new Discussion document: posts [] and post_count default 0
NewDiscussion(t) == [posts |-> <<>>, post_count |-> 0, updated_at |-> t]

\* mutation: the "+ 1" after Math.max is forgotten
NextPostIdNoIncrement(doc) ==
  IF Len(doc.posts) > 0 THEN MaxOf(PostIdsOf(doc)) ELSE 1

\* the id addPost gives the next post
NextPostId(doc) ==
  IF Len(doc.posts) > 0 THEN MaxOf(PostIdsOf(doc)) + 1 ELSE 1

\* mutation: addPost pushes the post and leaves post_count alone
AddPostDocStaleCount(doc, userId, content, t) ==
  LET pushed == Append(doc.posts,
                  [post_id |-> NextPostId(doc), user_id |-> userId,
                   content |-> Trim(content), edited_at |-> None,
                   is_edited |-> FALSE])
  IN  [doc EXCEPT !.posts = pushed, !.updated_at = t]

\* the in-memory effect of addPost(userId, content) at time t, before save()
AddPostDoc(doc, userId, content, t) ==
  LET pushed == Append(doc.posts,
                  [post_id |-> NextPostId(doc), user_id |-> userId,
                   content |-> Trim(content), edited_at |-> None,
                   is_edited |-> FALSE])
  IN  [doc EXCEPT !.posts = pushed, !.post_count = Len(pushed), !.updated_at = t]

\* mutation: editPost marks every post of the thread as edited
EditPostDocMarksAll(doc, i, newContent, t) ==
  [doc EXCEPT !.posts = [j \in 1..Len(doc.posts) |->
                           IF j = i
                           THEN [doc.posts[j] EXCEPT
                                   !.content = Trim(newContent),
                                   !.edited_at = Some(t),
                                   !.is_edited = TRUE]
                           ELSE [doc.posts[j] EXCEPT !.is_edited = TRUE]],
              !.updated_at = t]

\* the in-memory effect of editPost(postId, newContent) on the post at index i
EditPostDoc(doc, i, newContent, t) ==
  [doc EXCEPT !.posts[i].content = Trim(newContent),
              !.posts[i].edited_at = Some(t),
              !.posts[i].is_edited = TRUE,
              !.updated_at = t]

\* discussion.addPost(userId, content)
addPost(userId, content) ==
  /\ Len(discussion.posts) < MaxPosts
  /\ LET doc == AddPostDoc(discussion, userId, content, now)
     IN  /\ discussion' = doc
         /\ dstore' = doc
         /\ dlast' = [op |-> "addPost", post_id |-> NextPostId(discussion),
                      outcome |-> "ok"]
         /\ dassigned' = dassigned \cup {NextPostId(discussion)}
  /\ UNCHANGED <<now, avars, cvars, rmw, evars, xvars>>

\* discussion.editPost(postId, newContent)
editPost(postId, newContent) ==
  /\ LET i == FindPost(discussion, postId)
     IN  IF i = 0
         THEN /\ dlast' = [op |-> "editPost", post_id |-> postId,
                           outcome |-> "NotFound"]
              /\ UNCHANGED <<discussion, dstore>>
         ELSE LET doc == EditPostDoc(discussion, i, newContent, now)
              IN  /\ discussion' = doc
                  /\ dstore' = doc
                  /\ dlast' = [op |-> "editPost", post_id |-> postId,
                               outcome |-> "ok"]
  /\ UNCHANGED <<now, dassigned, avars, cvars, rmw, evars, xvars>>

\* a post is taken out of the posts array (posts.splice(i, 1)) and the
\* document saved; the models define no method for it
removePost(i) ==
  /\ i \in 1..Len(discussion.posts)
  /\ Cardinality(dassigned) <= MaxPosts
  /\ LET kept == [j \in 1..(Len(discussion.posts) - 1) |->
                   IF j < i THEN discussion.posts[j] ELSE discussion.posts[j + 1]]
         doc == [discussion EXCEPT !.posts = kept, !.post_count = Len(kept),
                                   !.updated_at = now]
     IN  /\ discussion' = doc
         /\ dstore' = doc
         /\ dlast' = [op |-> "removePost",
                      post_id |-> discussion.posts[i].post_id,
                      outcome |-> "ok"]
  /\ UNCHANGED <<now, dassigned, avars, cvars, rmw, evars, xvars>>

\* time passes between calls
Tick ==
  /\ now < MaxTime
  /\ now' = now + 1
  /\ UNCHANGED <<dvars, avars, cvars, rmw, evars, xvars>>

\* ------------------------------------------------------- Assignment (model)
\* a new Assignment document: submissions [] and submission_count default 0
NewAssignment(due, late) ==
  [max_marks |-> MaxMarks, due_date |-> due, allow_late_submission |-> late,
   submissions |-> <<>>, submission_count |-> 0, updated_at |-> 0]

\* this.submissions.findIndex(s => s.student_id === studentId): 0 if none
FindSubmission(doc, studentId) ==
  IF \E i \in 1..Len(doc.submissions) : doc.submissions[i].student_id = studentId
  THEN CHOOSE i \in 1..Len(doc.submissions) :
         /\ doc.submissions[i].student_id = studentId
         /\ \A j \in 1..(i - 1) : doc.submissions[j].student_id # studentId
  ELSE 0

\* const isLate = now > this.due_date
IsLate(doc, t) == t > doc.due_date

\* mutation: the negation of allow_late_submission is dropped
LateRejectedNoNegation(doc, t) == doc.allow_late_submission /\ IsLate(doc, t)

\* the check that makes addSubmission throw
LateRejected(doc, t) == ~doc.allow_late_submission /\ IsLate(doc, t)

\* mutation: a resubmission keeps the grading fields of the entry it replaces
BuildSubmissionKeepsGrade(doc, studentId, text, t) ==
  LET i == FindSubmission(doc, studentId)
  IN  [student_id |-> studentId, submission_text |-> text,
       status |-> IF IsLate(doc, t) THEN "late" ELSE "submitted",
       grade |-> IF i # 0 THEN doc.submissions[i].grade ELSE None,
       feedback |-> IF i # 0 THEN doc.submissions[i].feedback ELSE None,
       graded_by |-> IF i # 0 THEN doc.submissions[i].graded_by ELSE None,
       graded_at |-> IF i # 0 THEN doc.submissions[i].graded_at ELSE None]

\* mutation: the status of a new submission ignores isLate
BuildSubmissionNeverLate(doc, studentId, text, t) ==
  [student_id |-> studentId, submission_text |-> text,
   status |-> "submitted",
   grade |-> None, feedback |-> None, graded_by |-> None, graded_at |-> None]

\* the submission object addSubmission builds: no grade, feedback, graded_by, graded_at
BuildSubmission(doc, studentId, text, t) ==
  [student_id |-> studentId, submission_text |-> text,
   status |-> IF IsLate(doc, t) THEN "late" ELSE "submitted",
   grade |-> None, feedback |-> None, graded_by |-> None, graded_at |-> None]

\* mutation: addSubmission pushes without looking for an existing entry
AddSubmissionDocAlwaysPush(doc, studentId, text, t) ==
  LET pushed == Append(doc.submissions, BuildSubmission(doc, studentId, text, t))
  IN  [doc EXCEPT !.submissions = pushed,
                  !.submission_count = Len(pushed),
                  !.updated_at = t]

\* mutation: the counter is incremented on every submit, resubmissions included
AddSubmissionDocCountEvery(doc, studentId, text, t) ==
  LET existingIndex == FindSubmission(doc, studentId)
      submission == BuildSubmission(doc, studentId, text, t)
  IN  IF existingIndex # 0
      THEN [doc EXCEPT !.submissions[existingIndex] = submission,
                       !.submission_count = doc.submission_count + 1,
                       !.updated_at = t]
      ELSE [doc EXCEPT !.submissions = Append(doc.submissions, submission),
                       !.submission_count = doc.submission_count + 1,
                       !.updated_at = t]

\* mutation: a resubmission removes the old entry and pushes the new one
AddSubmissionDocMoveToEnd(doc, studentId, text, t) ==
  LET existingIndex == FindSubmission(doc, studentId)
      submission == BuildSubmission(doc, studentId, text, t)
      others == SelectSeq(doc.submissions, LAMBDA x : x.student_id # studentId)
      pushed == Append(others, submission)
  IN  IF existingIndex # 0
      THEN [doc EXCEPT !.submissions = pushed, !.updated_at = t]
      ELSE [doc EXCEPT !.submissions = pushed,
                       !.submission_count = Len(pushed),
                       !.updated_at = t]

\* the in-memory effect of addSubmission past the late check, before save()
AddSubmissionDoc(doc, studentId, text, t) ==
  LET existingIndex == FindSubmission(doc, studentId)
      submission == BuildSubmission(doc, studentId, text, t)
  IN  IF existingIndex # 0
      THEN [doc EXCEPT !.submissions[existingIndex] = submission,
                       !.updated_at = t]
      ELSE LET pushed == Append(doc.submissions, submission)
           IN  [doc EXCEPT !.submissions = pushed,
                           !.submission_count = Len(pushed),
                           !.updated_at = t]

\* the in-memory effect of gradeSubmission on the submission at index i
GradeSubmissionDoc(doc, i, grade, feedback, gradedBy, t) ==
  [doc EXCEPT !.submissions[i].grade = Some(grade),
              !.submissions[i].feedback = Some(feedback),
              !.submissions[i].graded_by = Some(gradedBy),
              !.submissions[i].graded_at = Some(t),
              !.submissions[i].status = "graded",
              !.updated_at = t]

\* mutation: the range check is off by one (>= instead of >)
GradeTooHighOffByOne(doc, grade) == grade >= doc.max_marks

\* the check that makes gradeSubmission throw the range error
GradeTooHigh(doc, grade) == grade > doc.max_marks

\* assignment.addSubmission(studentId, submissionData)
addSubmission(studentId, text) ==
  /\ IF LateRejected(assignment, now)
     THEN /\ alast' = [op |-> "addSubmission", student_id |-> studentId,
                       grade |-> None, outcome |-> "LateSubmission",
                       saved |-> FALSE]
          /\ UNCHANGED <<assignment, astore>>
     ELSE LET doc == AddSubmissionDoc(assignment, studentId, text, now)
          IN  /\ assignment' = doc
              /\ astore' = doc
              /\ alast' = [op |-> "addSubmission", student_id |-> studentId,
                           grade |-> None, outcome |-> "ok", saved |-> TRUE]
  /\ UNCHANGED <<now, dvars, cvars, rmw, evars, xvars>>

\* mutation: gradeSubmission checks the range before it looks for the entry
gradeSubmissionRangeFirst(studentId, grade, feedback, gradedBy) ==
  /\ LET i == FindSubmission(assignment, studentId)
     IN  IF GradeTooHigh(assignment, grade)
         THEN /\ alast' = [op |-> "gradeSubmission", student_id |-> studentId,
                           grade |-> Some(grade), outcome |-> "GradeOutOfRange",
                           saved |-> FALSE]
              /\ UNCHANGED <<assignment, astore>>
         ELSE IF i = 0
         THEN /\ alast' = [op |-> "gradeSubmission", student_id |-> studentId,
                           grade |-> Some(grade), outcome |-> "NotFound",
                           saved |-> FALSE]
              /\ UNCHANGED <<assignment, astore>>
         ELSE LET doc == GradeSubmissionDoc(assignment, i, grade, feedback,
                                            gradedBy, now)
              IN  /\ assignment' = doc
                  /\ astore' = doc
                  /\ alast' = [op |-> "gradeSubmission",
                               student_id |-> studentId, grade |-> Some(grade),
                               outcome |-> "ok", saved |-> TRUE]
  /\ UNCHANGED <<now, dvars, cvars, rmw, evars, xvars>>

\* assignment.gradeSubmission(studentId, gradeData)
gradeSubmission(studentId, grade, feedback, gradedBy) ==
  /\ LET i == FindSubmission(assignment, studentId)
     IN  IF i = 0
         THEN /\ alast' = [op |-> "gradeSubmission", student_id |-> studentId,
                           grade |-> Some(grade), outcome |-> "NotFound",
                           saved |-> FALSE]
              /\ UNCHANGED <<assignment, astore>>
         ELSE IF GradeTooHigh(assignment, grade)
         THEN /\ alast' = [op |-> "gradeSubmission", student_id |-> studentId,
                           grade |-> Some(grade), outcome |-> "GradeOutOfRange",
                           saved |-> FALSE]
              /\ UNCHANGED <<assignment, astore>>
         ELSE LET doc == GradeSubmissionDoc(assignment, i, grade, feedback,
                                            gradedBy, now)
              IN  /\ assignment' = doc
                  /\ astore' = doc
                  /\ alast' = [op |-> "gradeSubmission",
                               student_id |-> studentId, grade |-> Some(grade),
                               outcome |-> "ok", saved |-> TRUE]
  /\ UNCHANGED <<now, dvars, cvars, rmw, evars, xvars>>

\* ------------------------------------------------- controllers that create
\* the statics the Discussion model defines
DiscussionStatics == {"findByCourse"}

\* the statics the Assignment model defines
AssignmentStatics == {"findByCourse", "findByIdWithSubmissions", "findUpcoming"}

\* the response a controller sends: res.status(status).json({success, message})
Response(status, message) ==
  [status |-> status, success |-> status < 400, message |-> message]

\* the request and response recorded by a create handler
CreateRecord(op, courseId, userId, body, resp) ==
  [op |-> op, course_id |-> courseId, user_id |-> userId, body |-> body,
   status |-> resp.status, success |-> resp.success, message |-> resp.message]

\* discussionController.createDiscussion: POST /courses/:courseId/discussions.
\* The body is checked, then Discussion.createDiscussion is called; the model
\* defines no such static, so the call throws a TypeError, which the catch
\* block answers with 500.  No query of courses is made.
createDiscussion(courseId, userId, title, content) ==
  /\ IF title = "" \/ content = ""
     THEN /\ clast' = CreateRecord("createDiscussion", courseId, userId,
                        <<title, content>>,
                        Response(400, "Title and content are required"))
          /\ UNCHANGED discussions
     ELSE IF "createDiscussion" \in DiscussionStatics
     THEN /\ discussions' = discussions \cup
                {[course_id |-> courseId, created_by |-> userId, title |-> title]}
          /\ clast' = CreateRecord("createDiscussion", courseId, userId,
                        <<title, content>>,
                        Response(201, "Discussion created successfully"))
     ELSE /\ clast' = CreateRecord("createDiscussion", courseId, userId,
                        <<title, content>>,
                        Response(500, "Failed to create discussion"))
          /\ UNCHANGED discussions
  /\ UNCHANGED <<now, dvars, avars, courses, assignments, rmw, evars, xvars>>

\* assignmentController.submitAssignment: POST /courses/:courseId/assignments.
\* Assignment.submitAssignment is no static of the model either.
submitAssignment(courseId, userId, title, submissionType, content) ==
  /\ IF title = "" \/ submissionType = "" \/ content = ""
     THEN /\ clast' = CreateRecord("submitAssignment", courseId, userId,
                        <<title, submissionType, content>>,
                        Response(400, "Title, submission type, and content are required"))
          /\ UNCHANGED assignments
     ELSE IF "submitAssignment" \in AssignmentStatics
     THEN /\ assignments' = assignments \cup
                {[course_id |-> courseId, student_id |-> userId, title |-> title]}
          /\ clast' = CreateRecord("submitAssignment", courseId, userId,
                        <<title, submissionType, content>>,
                        Response(201, "Assignment submitted successfully"))
     ELSE /\ clast' = CreateRecord("submitAssignment", courseId, userId,
                        <<title, submissionType, content>>,
                        Response(500, "Failed to submit assignment"))
          /\ UNCHANGED assignments
  /\ UNCHANGED <<now, dvars, avars, courses, discussions, rmw, evars, xvars>>

\* ------------------------------------- concurrent load / mutate / save
\* A request loads a document with findById, calls a model method on its own
\* copy (the method runs to its save() call without yielding), and the write
\* of save() reaches MongoDB later.  The schemas set no optimisticConcurrency
\* option and the methods do not retry.  What save() writes is Mongoose's
\* business: the whole document, or only the changes made to the copy ($push
\* of the pushed entries, $set of the assigned paths); both are modelled.
SaveModes == {"replace", "delta"}

RmwIdle == [pc |-> "idle", kind |-> "none", base |-> <<>>, doc |-> <<>>,
            index |-> 0, outcome |-> "none"]

\* the entries a method pushed on the copy it loaded
Pushed(base, doc) == SubSeq(doc, Len(base) + 1, Len(doc))

\* what the write of save() leaves of a Discussion in the collection
SavedDiscussion(mode, stored, base, doc) ==
  IF mode = "replace" THEN doc
  ELSE [stored EXCEPT !.posts = stored.posts \o Pushed(base.posts, doc.posts),
                      !.post_count = doc.post_count,
                      !.updated_at = doc.updated_at]

\* what the write of save() leaves of an Assignment in the collection; index is
\* the position addSubmission assigned to, 0 when it pushed
SavedAssignment(mode, stored, base, doc, index) ==
  IF mode = "replace" THEN doc
  ELSE IF index = 0
  THEN [stored EXCEPT
          !.submissions = stored.submissions
                            \o Pushed(base.submissions, doc.submissions),
          !.submission_count = doc.submission_count,
          !.updated_at = doc.updated_at]
  ELSE [stored EXCEPT !.submissions[index] = doc.submissions[index],
                      !.updated_at = doc.updated_at]

\* Discussion.findById(discussionId) in a request
LoadDiscussion(r) ==
  /\ rmw[r].pc = "idle"
  /\ rmw' = [rmw EXCEPT ![r] = [pc |-> "loaded", kind |-> "discussion",
                                base |-> dstore, doc |-> dstore,
                                index |-> 0, outcome |-> "none"]]
  /\ UNCHANGED <<now, dvars, avars, cvars, evars, xvars>>

\* Assignment.findById(assignmentId) in a request
LoadAssignment(r) ==
  /\ rmw[r].pc = "idle"
  /\ rmw' = [rmw EXCEPT ![r] = [pc |-> "loaded", kind |-> "assignment",
                                base |-> astore, doc |-> astore,
                                index |-> 0, outcome |-> "none"]]
  /\ UNCHANGED <<now, dvars, avars, cvars, evars, xvars>>

\* the request calls addPost on its copy; save() is issued
CallAddPost(r, userId, content) ==
  /\ rmw[r].pc = "loaded"
  /\ rmw[r].kind = "discussion"
  /\ rmw' = [rmw EXCEPT ![r].pc = "saving",
                        ![r].doc = AddPostDoc(rmw[r].doc, userId, content, now)]
  /\ UNCHANGED <<now, dvars, avars, cvars, evars, xvars>>

\* the request calls addSubmission on its copy; it throws, or save() is issued
CallAddSubmission(r, studentId, text) ==
  /\ rmw[r].pc = "loaded"
  /\ rmw[r].kind = "assignment"
  /\ IF LateRejected(rmw[r].doc, now)
     THEN rmw' = [rmw EXCEPT ![r].pc = "done", ![r].outcome = "LateSubmission"]
     ELSE rmw' = [rmw EXCEPT
                    ![r].pc = "saving",
                    ![r].index = FindSubmission(rmw[r].doc, studentId),
                    ![r].doc = AddSubmissionDoc(rmw[r].doc, studentId, text, now)]
  /\ UNCHANGED <<now, dvars, avars, cvars, evars, xvars>>

\* the write of save() is applied and the promise resolves.  A write that
\* assigns an array element by index carries Mongoose's version check in some
\* versions, so it may instead be refused with a VersionError when the stored
\* document has changed since it was loaded; a write that only pushes carries
\* no such check.
SaveCommit(r) ==
  /\ rmw[r].pc = "saving"
  /\ \/ /\ \E mode \in SaveModes :
            IF rmw[r].kind = "discussion"
            THEN /\ dstore' = SavedDiscussion(mode, dstore, rmw[r].base,
                                              rmw[r].doc)
                 /\ UNCHANGED astore
            ELSE /\ astore' = SavedAssignment(mode, astore, rmw[r].base,
                                              rmw[r].doc, rmw[r].index)
                 /\ UNCHANGED dstore
        /\ rmw' = [rmw EXCEPT ![r].pc = "done", ![r].outcome = "ok"]
     \/ /\ rmw[r].kind = "assignment"
        /\ rmw[r].index # 0
        /\ astore # rmw[r].base
        /\ rmw' = [rmw EXCEPT ![r].pc = "done", ![r].outcome = "VersionError"]
        /\ UNCHANGED <<dstore, astore>>
  /\ UNCHANGED <<now, discussion, dlast, dassigned, assignment, alast, cvars,
                 evars, xvars>>


\* ------------------------------------------- enrollInCourse and its logging
\* POST /api/courses/:id/enroll runs authenticateToken, requireRole('student'),
\* logActivity('ENROLL_COURSE') and then courseController.enrollInCourse.  Every
\* await of the handler is a point where the other request can run.
EnrollIdle ==
  [pc |-> "idle", student_id |-> 0, course_id |-> 0, rel |-> "none",
   status |-> 0, sent |-> 0, manual |-> "none", mw |-> "none",
   surfaced |-> FALSE]

\* a row of enrollments for the pair exists
Enrolled(st, c) ==
  \E i \in 1..Len(enrollments) :
    enrollments[i].student_id = st /\ enrollments[i].course_id = c

\* mutation: logManualActivity without its try/catch
ManualLogResultNoCatch(writeOk) == IF writeOk THEN "resolved" ELSE "rejected"

\* what the caller of logManualActivity sees when the write of
\* ActivityLog.logActivity settles: the try/catch swallows a rejection
ManualLogResult(writeOk) == "resolved"

\* the wrapper logActivity puts around res.json, called with the response of
\* the handler: the log write is started inside try and given a .catch (threw:
\* building the entry threw, which the try block catches), then the original
\* res.json sends the response
SendJson(rec, status, rel, threw) ==
  [rec EXCEPT !.pc = "done", !.rel = rel, !.status = status,
              !.sent = rec.sent + 1,
              !.mw = IF threw THEN "failed" ELSE "pending"]

\* SELECT course_id, course_name FROM courses WHERE course_id = ?
SelectCourse(r, st, c) ==
  /\ ereq[r].pc = "idle"
  /\ LET rec == [ereq[r] EXCEPT !.student_id = st, !.course_id = c]
     IN  IF c \notin courses
         THEN \E threw \in BOOLEAN :
                ereq' = [ereq EXCEPT ![r] = SendJson(rec, 404, "notfound", threw)]
         ELSE ereq' = [ereq EXCEPT ![r] = [rec EXCEPT !.pc = "checkExisting"]]
  /\ UNCHANGED <<now, dvars, avars, cvars, rmw, enrollments, xvars>>

\* SELECT enrollment_id, status FROM enrollments WHERE student_id = ? AND course_id = ?
SelectExisting(r) ==
  /\ ereq[r].pc = "checkExisting"
  /\ IF Enrolled(ereq[r].student_id, ereq[r].course_id)
     THEN \E threw \in BOOLEAN :
            ereq' = [ereq EXCEPT ![r] = SendJson(ereq[r], 409, "already", threw)]
     ELSE ereq' = [ereq EXCEPT ![r].pc = "insert"]
  /\ UNCHANGED <<now, dvars, avars, cvars, rmw, enrollments, xvars>>

\* mutation: table enrollments without its unique key
DuplicateEntryNoKey(st, c) == FALSE

\* UNIQUE KEY unique_enrollment (student_id, course_id): an INSERT of a pair
\* that has a row is rejected with ER_DUP_ENTRY
DuplicateEntry(st, c) == Enrolled(st, c)

\* INSERT INTO enrollments ...: UNIQUE KEY unique_enrollment rejects a second
\* row of the pair, executeQuery rethrows and the catch block answers 500;
\* after the insert the handler awaits logManualActivity
InsertEnrollment(r) ==
  /\ ereq[r].pc = "insert"
  /\ IF DuplicateEntry(ereq[r].student_id, ereq[r].course_id)
     THEN /\ \E threw \in BOOLEAN :
               ereq' = [ereq EXCEPT ![r] = SendJson(ereq[r], 500, "dup", threw)]
          /\ UNCHANGED enrollments
     ELSE /\ enrollments' = Append(enrollments,
                              [student_id |-> ereq[r].student_id,
                               course_id |-> ereq[r].course_id,
                               status |-> "active"])
          /\ ereq' = [ereq EXCEPT ![r].pc = "awaitLog", ![r].rel = "inserted",
                                  ![r].manual = "pending"]
  /\ UNCHANGED <<now, dvars, avars, cvars, rmw, xvars>>

\* the write of the awaited logManualActivity settles (saved or rejected) and
\* the handler goes on: to res.status(201).json, or to its catch block if the
\* await rejected
ManualLogSettle(r, writeOk) ==
  /\ ereq[r].pc = "awaitLog"
  /\ LET rec == [ereq[r] EXCEPT
                   !.manual = IF writeOk THEN "saved" ELSE "failed"]
     IN  \E threw \in BOOLEAN :
           IF ManualLogResult(writeOk) = "resolved"
           THEN ereq' = [ereq EXCEPT ![r] = SendJson(rec, 201, "inserted", threw)]
           ELSE ereq' = [ereq EXCEPT ![r] =
                           [SendJson(rec, 500, "inserted", threw)
                              EXCEPT !.surfaced = TRUE]]
  /\ UNCHANGED <<now, dvars, avars, cvars, rmw, enrollments, xvars>>

\* the write started by the res.json wrapper settles; its .catch logs a
\* rejection to the console
MiddlewareLogSettle(r, writeOk) ==
  /\ ereq[r].mw = "pending"
  /\ ereq' = [ereq EXCEPT ![r].mw = IF writeOk THEN "saved" ELSE "failed"]
  /\ UNCHANGED <<now, dvars, avars, cvars, rmw, enrollments, xvars>>

\* ------------------------------------------- handlers that write, then log
\* enrollInCourse, createCourse and register have one shape: checks, a SELECT
\* for an existing row, the INSERT, then `await logManualActivity(...)` and the
\* 201 response; the routes of enroll and createCourse also wrap res.json with
\* logActivity.  Each await is a step; a key stands for the (student, course)
\* pair, the course_code or the email.
Ops == {"enroll", "createCourse", "register"}
Keys == {1, 2}

\* mutation: the handlers log first and insert afterwards
HandlerStepsLogFirst(op) ==
  CASE op = "enroll" ->
         <<"selectCourse", "selectExisting", "log", "insert", "send">>
    [] op = "createCourse" ->
         <<"validate", "selectExisting", "log", "insert", "selectCreated",
           "send">>
    [] OTHER ->
         <<"validate", "selectExisting", "hash", "log", "insert",
           "selectCreated", "send">>

\* the awaited steps of each handler, in the order of its code
HandlerSteps(op) ==
  CASE op = "enroll" ->
         <<"selectCourse", "selectExisting", "insert", "log", "send">>
    [] op = "createCourse" ->
         <<"validate", "selectExisting", "insert", "selectCreated", "log",
           "send">>
    [] OTHER ->
         <<"validate", "selectExisting", "hash", "insert", "selectCreated",
           "log", "send">>

\* the res.json wrapper of logActivity writes a log entry only on a route that
\* uses it and only for an authenticated request (req.user): register is
\* called without a token
HasMiddlewareLog(op) == op \in {"enroll", "createCourse"}

OpIdle ==
  [op |-> "none", key |-> 0, valid |-> TRUE, pc |-> 0, ins |-> "none",
   manual |-> "none", mw |-> "none", status |-> 0, sent |-> 0]

\* the step the handler of request r is about to run ("none": not running)
StepOf(rec) ==
  IF rec.pc >= 1 /\ rec.pc <= Len(HandlerSteps(rec.op))
  THEN HandlerSteps(rec.op)[rec.pc] ELSE "none"

\* the handler has returned
OpDone(rec) == rec.op # "none" /\ rec.pc > Len(HandlerSteps(rec.op))

\* res.status(status).json(...): the wrapper starts its log write, then the
\* response goes out and the handler returns
OpRespond(rec, status) ==
  [rec EXCEPT !.pc = Len(HandlerSteps(rec.op)) + 1,
              !.status = status,
              !.sent = rec.sent + 1,
              !.mw = IF HasMiddlewareLog(rec.op) THEN "pending" ELSE "none"]

OpFrame == UNCHANGED <<basevars, yvars, qvars, pvars, tvars, svars>>

\* a request arrives: valid says whether the body passes the field checks
OpStart(r, op, key, valid) ==
  /\ oreq[r].pc = 0
  /\ oreq' = [oreq EXCEPT ![r] = [OpIdle EXCEPT !.op = op, !.key = key,
                                                !.valid = valid, !.pc = 1]]
  /\ UNCHANGED otable
  /\ OpFrame

\* the field checks of createCourse and register: 400 before any query
OpValidate(r) ==
  /\ StepOf(oreq[r]) = "validate"
  /\ oreq' = [oreq EXCEPT ![r] =
                IF oreq[r].valid THEN [oreq[r] EXCEPT !.pc = oreq[r].pc + 1]
                ELSE OpRespond(oreq[r], 400)]
  /\ UNCHANGED otable
  /\ OpFrame

\* enrollInCourse: SELECT ... FROM courses WHERE course_id = ?; 404 if none
OpSelectCourse(r) ==
  /\ StepOf(oreq[r]) = "selectCourse"
  /\ oreq' = [oreq EXCEPT ![r] =
                IF oreq[r].key \in courses
                THEN [oreq[r] EXCEPT !.pc = oreq[r].pc + 1]
                ELSE OpRespond(oreq[r], 404)]
  /\ UNCHANGED otable
  /\ OpFrame

\* the SELECT for an existing row of the key: 409 if there is one
OpSelectExisting(r) ==
  /\ StepOf(oreq[r]) = "selectExisting"
  /\ oreq' = [oreq EXCEPT ![r] =
                IF oreq[r].key \in otable[oreq[r].op]
                THEN OpRespond(oreq[r], 409)
                ELSE [oreq[r] EXCEPT !.pc = oreq[r].pc + 1]]
  /\ UNCHANGED otable
  /\ OpFrame

\* register: await bcrypt.hash(password, 10)
OpHash(r) ==
  /\ StepOf(oreq[r]) = "hash"
  /\ oreq' = [oreq EXCEPT ![r].pc = oreq[r].pc + 1]
  /\ UNCHANGED otable
  /\ OpFrame

\* the INSERT: the unique key of the table (unique_enrollment, course_code,
\* email) rejects a second row of the key and the catch block answers 500
OpInsert(r) ==
  /\ StepOf(oreq[r]) = "insert"
  /\ IF oreq[r].key \in otable[oreq[r].op]
     THEN /\ oreq' = [oreq EXCEPT ![r] =
                        OpRespond([oreq[r] EXCEPT !.ins = "failed"], 500)]
          /\ UNCHANGED otable
     ELSE /\ otable' = [otable EXCEPT ![oreq[r].op] = @ \cup {oreq[r].key}]
          /\ oreq' = [oreq EXCEPT ![r].ins = "ok", ![r].pc = oreq[r].pc + 1]
  /\ OpFrame

\* createCourse and register read the created row back; a failing query goes
\* to the catch block
OpSelectCreated(r, ok) ==
  /\ StepOf(oreq[r]) = "selectCreated"
  /\ oreq' = [oreq EXCEPT ![r] =
                IF ok THEN [oreq[r] EXCEPT !.pc = oreq[r].pc + 1]
                ELSE OpRespond(oreq[r], 500)]
  /\ UNCHANGED otable
  /\ OpFrame

\* await logManualActivity(...): the write of the log entry is started
OpManualLogStart(r) ==
  /\ StepOf(oreq[r]) = "log"
  /\ oreq[r].manual = "none"
  /\ oreq' = [oreq EXCEPT ![r].manual = "pending"]
  /\ UNCHANGED otable
  /\ OpFrame

\* ... and settles; logManualActivity swallows a rejection
OpManualLogSettle(r, ok) ==
  /\ StepOf(oreq[r]) = "log"
  /\ oreq[r].manual = "pending"
  /\ oreq' = [oreq EXCEPT ![r].manual = IF ok THEN "saved" ELSE "failed",
                          ![r].pc = oreq[r].pc + 1]
  /\ UNCHANGED otable
  /\ OpFrame

\* res.status(201).json(...)
OpSend(r) ==
  /\ StepOf(oreq[r]) = "send"
  /\ oreq' = [oreq EXCEPT ![r] = OpRespond(oreq[r], 201)]
  /\ UNCHANGED otable
  /\ OpFrame

\* the write started by the res.json wrapper settles
OpMiddlewareLogSettle(r, ok) ==
  /\ oreq[r].mw = "pending"
  /\ oreq' = [oreq EXCEPT ![r].mw = IF ok THEN "saved" ELSE "failed"]
  /\ UNCHANGED otable
  /\ OpFrame

\* ------------------------------------------------------------- submitQuiz
QuizIds == {1, 2}                        \* req.params.quizId

\* what require('../config/mysql') gives the quiz controller: module.exports
\* of the MySQL configuration module
MysqlModuleExports ==
  {"pool", "testConnection", "executeQuery", "executeTransaction",
   "closeConnection"}

\* the columns of table quiz_submissions
QuizSubmissionColumns ==
  {"submission_id", "quiz_id", "student_id", "marks_obtained", "submitted_at",
   "graded_at", "feedback"}

\* the columns the INSERT of submitQuiz names
SubmitQuizInsertColumns == {"quiz_id", "student_id", "score", "submitted_at"}

QuizIdle == [pc |-> "idle", quiz_id |-> 0, student_id |-> 0, answers |-> FALSE,
             status |-> 0]

\* a row of quiz_submissions for the pair exists
Submitted(rows, q, st) ==
  \E i \in 1..Len(rows) : rows[i].quiz_id = q /\ rows[i].student_id = st

\* the status submitQuiz answers with: 400 without answers; every query is
\* `mysqlPool.query(...)`, a TypeError caught as 500 when the module exports
\* no `query`; otherwise 400 for an existing row, 404 for an unknown quiz, 500
\* when the INSERT is rejected (a column the table does not have, or the key
\* unique_submission), else 201
SubmitQuizStatus(rows, qs, q, st, answers) ==
  IF ~answers THEN 400
  ELSE IF "query" \notin MysqlModuleExports THEN 500
  ELSE IF Submitted(rows, q, st) THEN 400
  ELSE IF q \notin qs THEN 404
  ELSE IF ~(SubmitQuizInsertColumns \subseteq QuizSubmissionColumns) THEN 500
  ELSE 201

\* mutation: every call of submitQuiz appends a row
SubmitQuizRowsAlwaysInsert(rows, qs, q, st, answers) ==
  Append(rows, [quiz_id |-> q, student_id |-> st])

\* table quiz_submissions after the call: a row is added only by an INSERT
\* that succeeded
SubmitQuizRows(rows, qs, q, st, answers) ==
  IF SubmitQuizStatus(rows, qs, q, st, answers) = 201
  THEN Append(rows, [quiz_id |-> q, student_id |-> st])
  ELSE rows

\* quizController.submitQuiz: POST /quizzes/:quizId/submit.  The first query
\* expression throws before the handler reaches an await, so the call runs to
\* its response in one step.
submitQuiz(r, q, st, answers) ==
  /\ qreq[r].pc = "idle"
  /\ quiz_submissions' = SubmitQuizRows(quiz_submissions, quizzes, q, st, answers)
  /\ qreq' = [qreq EXCEPT ![r] =
                [pc |-> "done", quiz_id |-> q, student_id |-> st,
                 answers |-> answers,
                 status |-> SubmitQuizStatus(quiz_submissions, quizzes, q, st,
                                             answers)]]
  /\ UNCHANGED <<basevars, yvars, ovars, quizzes, pvars, tvars, svars>>

\* ------------------------------------------------------- getPlatformStats
Counts == {0, 1, 2}                      \* rows / documents in a collection

NoStats == [op |-> "none", mysql_up |-> TRUE, mongo_up |-> TRUE, status |-> 0,
            success |-> FALSE, mysql_stats |-> None, mongodb_stats |-> None]

\* the first statement that throws inside the try block of getPlatformStats:
\* the MySQL queries come first (each is `mysqlPool.query(...)`, a TypeError
\* when the module exports no `query`), then the MongoDB counts
PlatformStatsThrows(mysqlUp, mongoUp) ==
  \/ "query" \notin MysqlModuleExports
  \/ ~mysqlUp
  \/ ~mongoUp

\* activityController.getPlatformStats: one try block around the queries of
\* both stores and the response; the catch block answers 500 with no data
getPlatformStats(mysqlUp, mongoUp) ==
  /\ plast' =
       IF PlatformStatsThrows(mysqlUp, mongoUp)
       THEN [op |-> "getPlatformStats", mysql_up |-> mysqlUp,
             mongo_up |-> mongoUp, status |-> 500, success |-> FALSE,
             mysql_stats |-> None, mongodb_stats |-> None]
       ELSE [op |-> "getPlatformStats", mysql_up |-> mysqlUp,
             mongo_up |-> mongoUp, status |-> 200, success |-> TRUE,
             mysql_stats |-> Some([courses |-> rowcounts.courses,
                                   enrollments |-> rowcounts.enrollments]),
             mongodb_stats |-> Some([activity_logs |-> rowcounts.activity_logs,
                                     discussions |-> rowcounts.discussions])]
  /\ UNCHANGED <<basevars, yvars, ovars, qvars, rowcounts, tvars, svars>>

\* ----------------------------------------------------- executeTransaction
\* Every await of executeTransaction is a step that resolves or rejects.  The
\* rows the callback writes through the connection are pending until COMMIT.
TxIdle ==
  [pc |-> "getConnection", pending |-> {}, thrown |-> "none",
   callback |-> "none", commit |-> "none", rollback |-> "none",
   released |-> FALSE, outcome |-> "none", error |-> "none"]

\* the rows request r writes in its callback
TxRows(r) == {<<r, 1>>, <<r, 2>>}

\* const connection = await promisePool.getConnection(): outside the try
\* block, a rejection goes straight to the caller
TxGetConnection(r, ok) ==
  /\ tx[r].pc = "getConnection"
  /\ tx' = [tx EXCEPT ![r] =
              IF ok THEN [tx[r] EXCEPT !.pc = "begin"]
              ELSE [tx[r] EXCEPT !.pc = "done", !.outcome = "rejected",
                                 !.error = "getConnection"]]
  /\ checked_out' = IF ok THEN checked_out + 1 ELSE checked_out
  /\ UNCHANGED <<basevars, yvars, ovars, qvars, pvars, committed, svars>>

\* await connection.beginTransaction()
TxBegin(r, ok) ==
  /\ tx[r].pc = "begin"
  /\ tx' = [tx EXCEPT ![r] =
              IF ok THEN [tx[r] EXCEPT !.pc = "callback"]
              ELSE [tx[r] EXCEPT !.pc = "rollback", !.thrown = "begin"]]
  /\ UNCHANGED <<basevars, yvars, ovars, qvars, pvars, committed, checked_out,
                 svars>>

\* const result = await callback(connection): the callback writes some of its
\* rows and resolves, or throws after writing some of them
TxCallback(r, rows, ok) ==
  /\ tx[r].pc = "callback"
  /\ tx' = [tx EXCEPT ![r] =
              IF ok
              THEN [tx[r] EXCEPT !.pc = "commit", !.pending = rows,
                                 !.callback = "resolved"]
              ELSE [tx[r] EXCEPT !.pc = "rollback", !.pending = rows,
                                 !.callback = "threw", !.thrown = "callback"]]
  /\ UNCHANGED <<basevars, yvars, ovars, qvars, pvars, committed, checked_out,
                 svars>>

\* await connection.commit(); return result
TxCommit(r, ok) ==
  /\ tx[r].pc = "commit"
  /\ IF ok
     THEN /\ committed' = committed \cup tx[r].pending
          /\ tx' = [tx EXCEPT ![r].pc = "release", ![r].pending = {},
                              ![r].commit = "resolved",
                              ![r].outcome = "resolved"]
     ELSE /\ tx' = [tx EXCEPT ![r].pc = "rollback", ![r].commit = "threw",
                              ![r].thrown = "commit"]
          /\ UNCHANGED committed
  /\ UNCHANGED <<basevars, yvars, ovars, qvars, pvars, checked_out, svars>>

\* mutation: connection.release() follows the try/catch instead of standing
\* in finally, so an error thrown by rollback skips it
TxRollbackNoFinally(r, ok) ==
  /\ tx[r].pc = "rollback"
  /\ tx' = [tx EXCEPT ![r] =
              IF ok
              THEN [tx[r] EXCEPT !.pc = "release", !.pending = {},
                                 !.rollback = "resolved",
                                 !.outcome = "rejected",
                                 !.error = tx[r].thrown]
              ELSE [tx[r] EXCEPT !.pc = "done", !.rollback = "threw",
                                 !.outcome = "rejected",
                                 !.error = "rollback"]]
  /\ UNCHANGED <<basevars, yvars, ovars, qvars, pvars, committed, checked_out,
                 svars>>

\* catch (error) { await connection.rollback(); throw error; }: when rollback
\* itself rejects, its error leaves the catch block in place of `error`
TxRollback(r, ok) ==
  /\ tx[r].pc = "rollback"
  /\ tx' = [tx EXCEPT ![r] =
              IF ok
              THEN [tx[r] EXCEPT !.pc = "release", !.pending = {},
                                 !.rollback = "resolved",
                                 !.outcome = "rejected",
                                 !.error = tx[r].thrown]
              ELSE [tx[r] EXCEPT !.pc = "release", !.rollback = "threw",
                                 !.outcome = "rejected",
                                 !.error = "rollback"]]
  /\ UNCHANGED <<basevars, yvars, ovars, qvars, pvars, committed, checked_out,
                 svars>>

\* finally { connection.release(); }
TxRelease(r) ==
  /\ tx[r].pc = "release"
  /\ tx' = [tx EXCEPT ![r].pc = "done", ![r].released = TRUE]
  /\ checked_out' = checked_out - 1
  /\ UNCHANGED <<basevars, yvars, ovars, qvars, pvars, committed, svars>>

\* ------------------------------------------------------ getCourseStudents
\* rows of table quizzes: quizzes 1 and 2 belong to course 2, quiz 3 to course 1
QuizRows ==
  {[quiz_id |-> 1, course_id |-> 2, max_marks |-> 2],
   [quiz_id |-> 2, course_id |-> 2, max_marks |-> 4],
   [quiz_id |-> 3, course_id |-> 1, max_marks |-> 2]}

\* rows of table quiz_submissions
SubmissionRows ==
  {[submission_id |-> 1, quiz_id |-> 1, student_id |-> 1, marks_obtained |-> 1],
   [submission_id |-> 2, quiz_id |-> 2, student_id |-> 1, marks_obtained |-> 4],
   [submission_id |-> 3, quiz_id |-> 1, student_id |-> 2, marks_obtained |-> 2],
   [submission_id |-> 4, quiz_id |-> 3, student_id |-> 1, marks_obtained |-> 1]}

EnrollmentStatuses == {"none", "active", "dropped"}   \* "none": no row

NoSummary == [op |-> "none", course_id |-> 0, status |-> 0, students |-> {}]

\* the rows the two LEFT JOINs give for the enrollment of student st in course
\* c: one per submission of the student, in any course, with the quiz columns
\* NULL (None) unless the quiz of the submission belongs to course c; a single
\* all-NULL row when the student has no submission
JoinedRows(data, st, c) ==
  LET mine == {qs \in data.subs : qs.student_id = st}
  IN  IF mine = {}
      THEN {[submission_id |-> None, marks_obtained |-> None,
             max_marks |-> None]}
      ELSE {[submission_id |-> Some(qs.submission_id),
             marks_obtained |-> Some(qs.marks_obtained),
             max_marks |-> IF \E q \in data.quizzes :
                                 q.quiz_id = qs.quiz_id /\ q.course_id = c
                           THEN Some((CHOOSE q \in data.quizzes :
                                        q.quiz_id = qs.quiz_id).max_marks)
                           ELSE None] : qs \in mine}

RECURSIVE SumPercent(_)
\* the sum of (marks_obtained / max_marks) * 100 over joined rows, in
\* hundredths of a percent
SumPercent(rows) ==
  IF rows = {} THEN 0
  ELSE LET x == CHOOSE y \in rows : TRUE
       IN  (x.marks_obtained[1] * 10000) \div x.max_marks[1]
             + SumPercent(rows \ {x})

\* ROUND(AVG((qs.marks_obtained / q.max_marks) * 100), 2), in hundredths of a
\* percent: AVG skips the rows whose value is NULL and is NULL when none is left
AvgPercentage(rows) ==
  LET vals == {x \in rows : x.marks_obtained # None /\ x.max_marks # None}
      n == Cardinality(vals)
  IN  IF n = 0 THEN None
      ELSE Some((2 * SumPercent(vals) + n) \div (2 * n))

\* COUNT(DISTINCT qs.submission_id): NULL is not counted
QuizzesSubmitted(rows) ==
  Cardinality({x.submission_id : x \in rows} \ {None})

\* the result of the student query: one row per active enrollment of course c
\* (GROUP BY the user and enrollment columns), with the selected columns
CourseStudentRows(data, c) ==
  {[user_id |-> st,
    status |-> data.enr[st, c],
    quizzes_submitted |-> QuizzesSubmitted(JoinedRows(data, st, c)),
    avg_percentage |-> AvgPercentage(JoinedRows(data, st, c))] :
     st \in {x \in Students : data.enr[x, c] = "active"}}

\* courseController.getCourseStudents: GET /api/courses/:id/students.  denied
\* is the outcome of the instructor check on the caller.
getCourseStudents(c, denied) ==
  /\ slast' =
       IF c \notin CourseIds
       THEN [op |-> "getCourseStudents", course_id |-> c, status |-> 404,
             students |-> {}]
       ELSE IF denied
       THEN [op |-> "getCourseStudents", course_id |-> c, status |-> 403,
             students |-> {}]
       ELSE [op |-> "getCourseStudents", course_id |-> c, status |-> 200,
             students |-> CourseStudentRows(sdata, c)]
  /\ UNCHANGED <<basevars, yvars, ovars, qvars, pvars, tvars, sdata>>

\* ------------------------------------------------- logActivity middleware
\* the routes wrapped with logActivity(action, {resourceType}), by handler
LoggedRoutes ==
  {"enrollInCourse", "createCourse", "submitQuiz", "submitAssignment",
   "gradeAssignment", "createDiscussion", "addComment"}

\* the action argument of the route's logActivity call
RouteAction(route) ==
  CASE route = "enrollInCourse" -> "ENROLL_COURSE"
    [] route = "createCourse" -> "CREATE_COURSE"
    [] route = "submitQuiz" -> "submit_quiz"
    [] route = "submitAssignment" -> "submit_assignment"
    [] route = "gradeAssignment" -> "grade_assignment"
    [] route = "createDiscussion" -> "create_discussion"
    [] route = "addComment" -> "add_comment"

\* the resourceType option of the route's logActivity call
RouteResourceType(route) ==
  CASE route = "enrollInCourse" -> "enrollment"
    [] route = "createCourse" -> "course"
    [] route = "submitQuiz" -> "quiz_submission"
    [] route = "submitAssignment" -> "assignment"
    [] route = "gradeAssignment" -> "assignment"
    [] route = "createDiscussion" -> "discussion"
    [] route = "addComment" -> "comment"

\* activityLogSchema.action: enum
ActionEnum ==
  {"LOGIN", "LOGOUT", "REGISTER", "VIEW_COURSE", "ENROLL_COURSE",
   "DROP_COURSE", "CREATE_COURSE", "UPDATE_COURSE", "DELETE_COURSE",
   "VIEW_QUIZ", "SUBMIT_QUIZ", "CREATE_QUIZ", "GRADE_QUIZ",
   "VIEW_ASSIGNMENT", "SUBMIT_ASSIGNMENT", "CREATE_ASSIGNMENT",
   "GRADE_ASSIGNMENT", "CREATE_DISCUSSION", "POST_COMMENT", "EDIT_COMMENT",
   "DELETE_COMMENT", "VIEW_DASHBOARD", "UPDATE_PROFILE", "CHANGE_PASSWORD"}

\* activityLogSchema.resource_type: enum (null is allowed as well)
ResourceTypeEnum ==
  {"course", "quiz", "assignment", "discussion", "user", "enrollment"}

\* the callers of the wrapped routes; 0: req.user is not set
LogUsers == {0, 1, 7}
ResponseStatuses == {200, 500}

LogIdle ==
  [pc |-> "idle", route |-> "none", user_id |-> 0, status |-> 0, sent |-> 0,
   write |-> "none", accepted |-> FALSE]

\* the schema validation log.save() runs before the write
ValidLog(entry) ==
  /\ entry.action \in ActionEnum
  /\ entry.resource_type \in ResourceTypeEnum

\* the entry logActivity builds inside the res.json wrapper
LogData(rec) ==
  [user_id |-> rec.user_id, action |-> RouteAction(rec.route),
   resource_type |-> RouteResourceType(rec.route),
   success |-> rec.status < 400]

\* the handler of a wrapped route calls res.json: the wrapper starts
\* ActivityLog.logActivity(logData) when req.user.user_id is set, without
\* awaiting it, and sends the response
WrappedJson(r, route, u, status) ==
  /\ lreq[r].pc = "idle"
  /\ lreq' = [lreq EXCEPT ![r] =
                [pc |-> "done", route |-> route, user_id |-> u,
                 status |-> status, sent |-> 1,
                 write |-> IF u # 0 THEN "pending" ELSE "none",
                 accepted |-> FALSE]]
  /\ UNCHANGED <<basevars, ovars, qvars, pvars, tvars, svars, users,
                 activitylogs, node_env, eresp, proc>>

\* statics.logActivity: new this(...) and log.save() settle.  accepts: the
\* document store takes writes.  A validation error or a failed write rejects,
\* and the .catch of the wrapper prints it.
LogWriteSettle(r, accepts) ==
  /\ lreq[r].write = "pending"
  /\ IF ValidLog(LogData(lreq[r])) /\ accepts
     THEN /\ activitylogs' = activitylogs \cup {LogData(lreq[r])}
          /\ lreq' = [lreq EXCEPT ![r].write = "saved", ![r].accepted = accepts]
     ELSE /\ UNCHANGED activitylogs
          /\ lreq' = [lreq EXCEPT ![r].write = "rejected",
                                  ![r].accepted = accepts]
  /\ UNCHANGED <<basevars, ovars, qvars, pvars, tvars, svars, users, node_env,
                 eresp, proc>>

\* --------------------------------------------------------- error responses
\* values of NODE_ENV: the two named ones and unset
NodeEnvs == {"development", "production", "unset"}

\* handlers whose catch block answers res.status(500).json({ ..., error:
\* error.message })
CatchingHandlers ==
  {"enrollInCourse", "createCourse", "getCourseStudents", "submitQuiz"}

\* exceptions: their message and their stack
Errors ==
  {[message |-> "ER_DUP_ENTRY", stack |-> "Error: ER_DUP_ENTRY at Query"],
   [message |-> "ECONNREFUSED", stack |-> "Error: ECONNREFUSED at Socket"]}

NoErrorResponse ==
  [by |-> "none", status |-> 0, message |-> "", error |-> None]

\* the message each catch block sends
FailureMessage(h) ==
  CASE h = "enrollInCourse" -> "Failed to enroll in course"
    [] h = "createCourse" -> "Failed to create course"
    [] h = "getCourseStudents" -> "Failed to get course students"
    [] h = "submitQuiz" -> "Failed to submit quiz"

\* catch (error) { res.status(500).json({ success: false, message: '...',
\* error: error.message }) } of a controller
HandlerCatch(r, h, err) ==
  /\ eresp[r].by = "none"
  /\ eresp' = [eresp EXCEPT ![r] =
                 [by |-> h, status |-> 500, message |-> FailureMessage(h),
                  error |-> Some(err.message)]]
  /\ UNCHANGED <<basevars, ovars, qvars, pvars, tvars, svars, users,
                 activitylogs, lreq, node_env, proc>>

\* app.use((err, req, res, next) => ...): the error field is err.stack in
\* development and undefined otherwise
GlobalErrorHandler(r, err) ==
  /\ eresp[r].by = "none"
  /\ eresp' = [eresp EXCEPT ![r] =
                 [by |-> "global", status |-> 500, message |-> err.message,
                  error |-> IF node_env = "development"
                            THEN Some(err.stack) ELSE None]]
  /\ UNCHANGED <<basevars, ovars, qvars, pvars, tvars, svars, users,
                 activitylogs, lreq, node_env, proc>>

\* ------------------------------------------------------ process shutdown
\* The process after startServer: the HTTP server listens with the set conns
\* of open client connections, the MySQL pool and the mongoose connection are open.
\* Two listeners are registered for SIGINT: the one of config/mongodb
\* (registered when server.js requires the module) and gracefulShutdown
\* (registered at the end of startServer); SIGTERM has gracefulShutdown only.
\* mh and gs are the positions of the two listeners.
MaxConns == 3
Signals == {"SIGINT", "SIGTERM"}
Sockets == 1..MaxConns

Running(conns) ==
  [signal |-> "none", http |-> "listening", conns |-> conns,
   mysql |-> "open", mongo |-> "open", mh |-> "idle", gs |-> "idle",
   timer |-> "off", exited |-> "none", code |-> 0]

\* the signal arrives: process emits it to the listeners in the order of
\* their registration, each running to its first await.  The mongodb listener
\* calls closeConnection (mongoose.connection.close() starts); gracefulShutdown
\* calls server.close(callback) and arms the 10 s timer.
Signal(sig) ==
  /\ proc.exited = "none"
  /\ proc.signal = "none"
  /\ proc' = [proc EXCEPT
                !.signal = sig,
                !.mongo = IF sig = "SIGINT" THEN "closing" ELSE @,
                !.mh = IF sig = "SIGINT" THEN "awaitClose" ELSE @,
                !.http = "closing",
                !.gs = "awaitServerClose",
                !.timer = "armed"]
  /\ UNCHANGED <<basevars, ovars, qvars, pvars, tvars, svars, users,
                 activitylogs, lreq, node_env, eresp>>

\* a client opens connection c while the server listens
ConnOpen(c) ==
  /\ proc.exited = "none"
  /\ proc.http = "listening"
  /\ c \notin proc.conns
  /\ proc' = [proc EXCEPT !.conns = @ \cup {c}]
  /\ UNCHANGED <<basevars, ovars, qvars, pvars, tvars, svars, users,
                 activitylogs, lreq, node_env, eresp>>

\* client connection c ends
ConnEnd(c) ==
  /\ proc.exited = "none"
  /\ c \in proc.conns
  /\ proc' = [proc EXCEPT !.conns = @ \ {c}]
  /\ UNCHANGED <<basevars, ovars, qvars, pvars, tvars, svars, users,
                 activitylogs, lreq, node_env, eresp>>

\* the callback of server.close runs once no connection is left: it calls
\* closeMySQLConnection (pool.end() starts) and awaits it
ServerClosed ==
  /\ proc.exited = "none"
  /\ proc.gs = "awaitServerClose"
  /\ proc.conns = {}
  /\ proc' = [proc EXCEPT !.http = "closed", !.mysql = "closing",
                          !.gs = "awaitMySQL"]
  /\ UNCHANGED <<basevars, ovars, qvars, pvars, tvars, svars, users,
                 activitylogs, lreq, node_env, eresp>>

\* pool.end() settles (a rejection is caught and printed); the callback goes
\* on to closeMongoConnection and awaits mongoose.connection.close()
MySQLEnded(ok) ==
  /\ proc.exited = "none"
  /\ proc.gs = "awaitMySQL"
  /\ proc' = [proc EXCEPT !.mysql = IF ok THEN "closed" ELSE "failed",
                          !.mongo = IF @ = "open" THEN "closing" ELSE @,
                          !.gs = "awaitMongo"]
  /\ UNCHANGED <<basevars, ovars, qvars, pvars, tvars, svars, users,
                 activitylogs, lreq, node_env, eresp>>

\* mongoose.connection.close() settles (a rejection is caught and printed)
MongoClosed(ok) ==
  /\ proc.exited = "none"
  /\ proc.mongo = "closing"
  /\ proc' = [proc EXCEPT !.mongo = IF ok THEN "closed" ELSE "failed"]
  /\ UNCHANGED <<basevars, ovars, qvars, pvars, tvars, svars, users,
                 activitylogs, lreq, node_env, eresp>>

\* the SIGINT listener of config/mongodb resumes after await closeConnection()
\* and calls process.exit(0)
MongoHandlerExit ==
  /\ proc.exited = "none"
  /\ proc.mh = "awaitClose"
  /\ proc.mongo \in {"closed", "failed"}
  /\ proc' = [proc EXCEPT !.mh = "done", !.exited = "mongodb", !.code = 0]
  /\ UNCHANGED <<basevars, ovars, qvars, pvars, tvars, svars, users,
                 activitylogs, lreq, node_env, eresp>>

\* the callback of server.close resumes after await closeMongoConnection()
\* and calls process.exit(0)
GracefulExit ==
  /\ proc.exited = "none"
  /\ proc.gs = "awaitMongo"
  /\ proc.mongo \in {"closed", "failed"}
  /\ proc' = [proc EXCEPT !.gs = "done", !.exited = "gracefulShutdown",
                          !.code = 0]
  /\ UNCHANGED <<basevars, ovars, qvars, pvars, tvars, svars, users,
                 activitylogs, lreq, node_env, eresp>>

\* the timer of gracefulShutdown fires: process.exit(1)
ForcedExit ==
  /\ proc.exited = "none"
  /\ proc.timer = "armed"
  /\ proc' = [proc EXCEPT !.timer = "fired", !.exited = "timer", !.code = 1]
  /\ UNCHANGED <<basevars, ovars, qvars, pvars, tvars, svars, users,
                 activitylogs, lreq, node_env, eresp>>

\* ------------------------------------------------------------ specifications
DiscIdle ==
  /\ discussion = NewDiscussion(0)
  /\ dstore = NewDiscussion(0)
  /\ dlast = [op |-> "new", post_id |-> 0, outcome |-> "ok"]
  /\ dassigned = {}

AsgIdle ==
  /\ assignment = NewAssignment(0, FALSE)
  /\ astore = NewAssignment(0, FALSE)
  /\ alast = [op |-> "new", student_id |-> 0, grade |-> None,
              outcome |-> "ok", saved |-> FALSE]

CreateIdle ==
  /\ courses = {1}
  /\ discussions = {}
  /\ assignments = {}
  /\ clast = CreateRecord("none", 0, 0, <<>>, Response(0, ""))

RmwAllIdle == rmw = [r \in Requests |-> RmwIdle]

EnrollAllIdle ==
  /\ enrollments = <<>>
  /\ ereq = [r \in Requests |-> EnrollIdle]

\* table users: students 1 and 2, instructor 7; no row for user 4
LateIdle ==
  /\ users = [u \in UserIds |->
                IF u \in {1, 2} THEN "student"
                ELSE IF u = 7 THEN "instructor" ELSE "none"]
  /\ activitylogs = {}
  /\ lreq = [r \in Requests |-> LogIdle]
  /\ node_env = "production"
  /\ eresp = [r \in Requests |-> NoErrorResponse]
  /\ proc = Running({})

OpAllIdle ==
  /\ otable = [op \in Ops |-> {}]
  /\ oreq = [r \in Requests |-> OpIdle]

QuizAllIdle ==
  /\ quizzes = {1}
  /\ quiz_submissions = <<>>
  /\ qreq = [r \in Requests |-> QuizIdle]

StatsIdle ==
  /\ rowcounts = [courses |-> 0, enrollments |-> 0, activity_logs |-> 0,
                  discussions |-> 0]
  /\ plast = NoStats

TxAllIdle ==
  /\ committed = {}
  /\ tx = [r \in Requests |-> TxIdle]
  /\ checked_out = 0

SummaryIdle ==
  /\ sdata = [enr |-> [st \in Students, c \in CourseIds |-> "none"],
              quizzes |-> {}, subs |-> {}]
  /\ slast = NoSummary

ExtraIdle ==
  /\ LateIdle
  /\ OpAllIdle
  /\ QuizAllIdle
  /\ StatsIdle
  /\ TxAllIdle
  /\ SummaryIdle

InitDisc ==
  /\ now = 0
  /\ DiscIdle
  /\ AsgIdle
  /\ CreateIdle
  /\ RmwAllIdle
  /\ EnrollAllIdle
  /\ ExtraIdle

InitAsg ==
  /\ now = 0
  /\ DiscIdle
  /\ \E due \in DueDates, late \in BOOLEAN :
       /\ assignment = NewAssignment(due, late)
       /\ astore = NewAssignment(due, late)
  /\ alast = [op |-> "new", student_id |-> 0, grade |-> None,
              outcome |-> "ok", saved |-> FALSE]
  /\ CreateIdle
  /\ RmwAllIdle
  /\ EnrollAllIdle
  /\ ExtraIdle

NextAsg ==
  \/ \E st \in Students, x \in Texts : addSubmission(st, x)
  \/ \E st \in Students, g \in Grades, f \in Feedbacks, by \in Graders :
       gradeSubmission(st, g, f, by)
  \/ Tick

SpecAsg == InitAsg /\ [][NextAsg]_vars

\* the controllers that create documents, over any content of table courses
InitCreate ==
  /\ now = 0
  /\ DiscIdle
  /\ AsgIdle
  /\ courses \in SUBSET CourseIds
  /\ discussions = {}
  /\ assignments = {}
  /\ clast = CreateRecord("none", 0, 0, <<>>, Response(0, ""))
  /\ RmwAllIdle
  /\ EnrollAllIdle
  /\ ExtraIdle

NextCreate ==
  \/ \E c \in CourseIds, u \in Users, t \in Titles, b \in Bodies :
       createDiscussion(c, u, t, b)
  \/ \E c \in CourseIds, u \in Students, t \in Titles,
         y \in SubmissionTypes, b \in Bodies :
       submitAssignment(c, u, t, y, b)

SpecCreate == InitCreate /\ [][NextCreate]_vars

\* concurrent requests on one Discussion and one Assignment
\* the stored assignment is new, or already holds one student's submission
InitRmw ==
  /\ now = 0
  /\ DiscIdle
  /\ assignment = NewAssignment(0, FALSE)
  /\ astore \in {NewAssignment(0, FALSE),
                 AddSubmissionDoc(NewAssignment(0, FALSE), 1, "v1", 0)}
  /\ alast = [op |-> "new", student_id |-> 0, grade |-> None,
              outcome |-> "ok", saved |-> FALSE]
  /\ CreateIdle
  /\ RmwAllIdle
  /\ EnrollAllIdle
  /\ ExtraIdle

NextRmw ==
  \/ \E r \in Requests : LoadDiscussion(r)
  \/ \E r \in Requests : LoadAssignment(r)
  \/ \E r \in Requests, u \in Users, c \in RawContents : CallAddPost(r, u, c)
  \/ \E r \in Requests, st \in Students, x \in Texts :
       CallAddSubmission(r, st, x)
  \/ \E r \in Requests : SaveCommit(r)

SpecRmw == InitRmw /\ [][NextRmw]_vars

\* two enroll requests and their activity-log writes
InitEnroll ==
  /\ now = 0
  /\ DiscIdle
  /\ AsgIdle
  /\ CreateIdle
  /\ RmwAllIdle
  /\ EnrollAllIdle
  /\ ExtraIdle

NextEnroll ==
  \/ \E r \in Requests, st \in Students, c \in CourseIds : SelectCourse(r, st, c)
  \/ \E r \in Requests : SelectExisting(r)
  \/ \E r \in Requests : InsertEnrollment(r)
  \/ \E r \in Requests, ok \in BOOLEAN : ManualLogSettle(r, ok)
  \/ \E r \in Requests, ok \in BOOLEAN : MiddlewareLogSettle(r, ok)

SpecEnroll == InitEnroll /\ [][NextEnroll]_vars

\* the relational queries of a started handler complete (executeQuery resolves
\* or rejects); nothing makes an activity-log write settle, and no request
\* has to arrive
EnrollFairness ==
  \A r \in Requests :
    /\ WF_vars(SelectExisting(r))
    /\ WF_vars(InsertEnrollment(r))

SpecEnrollFair == InitEnroll /\ [][NextEnroll]_vars /\ EnrollFairness

\* two requests, each one of enroll, createCourse, register
InitOp ==
  /\ now = 0
  /\ DiscIdle
  /\ AsgIdle
  /\ CreateIdle
  /\ RmwAllIdle
  /\ EnrollAllIdle
  /\ LateIdle
  /\ OpAllIdle
  /\ QuizAllIdle
  /\ StatsIdle
  /\ TxAllIdle
  /\ SummaryIdle

NextOp ==
  \/ \E r \in Requests, op \in Ops, k \in Keys, valid \in BOOLEAN :
       OpStart(r, op, k, valid)
  \/ \E r \in Requests : OpValidate(r)
  \/ \E r \in Requests : OpSelectCourse(r)
  \/ \E r \in Requests : OpSelectExisting(r)
  \/ \E r \in Requests : OpHash(r)
  \/ \E r \in Requests : OpInsert(r)
  \/ \E r \in Requests, ok \in BOOLEAN : OpSelectCreated(r, ok)
  \/ \E r \in Requests : OpManualLogStart(r)
  \/ \E r \in Requests, ok \in BOOLEAN : OpManualLogSettle(r, ok)
  \/ \E r \in Requests : OpSend(r)
  \/ \E r \in Requests, ok \in BOOLEAN : OpMiddlewareLogSettle(r, ok)

SpecOp == InitOp /\ [][NextOp]_vars

\* submitQuiz requests on a table that is empty or holds rows of earlier
\* submissions
InitQuiz ==
  /\ now = 0
  /\ DiscIdle
  /\ AsgIdle
  /\ CreateIdle
  /\ RmwAllIdle
  /\ EnrollAllIdle
  /\ LateIdle
  /\ OpAllIdle
  /\ quizzes = {1}
  /\ quiz_submissions \in {<<>>,
                           <<[quiz_id |-> 1, student_id |-> 1]>>,
                           <<[quiz_id |-> 1, student_id |-> 1],
                             [quiz_id |-> 1, student_id |-> 2]>>}
  /\ qreq = [r \in Requests |-> QuizIdle]
  /\ StatsIdle
  /\ TxAllIdle
  /\ SummaryIdle

NextQuiz ==
  \E r \in Requests, q \in QuizIds, st \in Students, answers \in BOOLEAN :
    submitQuiz(r, q, st, answers)

SpecQuiz == InitQuiz /\ [][NextQuiz]_vars

\* getPlatformStats over any content of the two stores
InitStats ==
  /\ now = 0
  /\ DiscIdle
  /\ AsgIdle
  /\ CreateIdle
  /\ RmwAllIdle
  /\ EnrollAllIdle
  /\ LateIdle
  /\ OpAllIdle
  /\ QuizAllIdle
  /\ rowcounts \in [courses : Counts, enrollments : Counts,
                    activity_logs : Counts, discussions : Counts]
  /\ plast = NoStats
  /\ TxAllIdle
  /\ SummaryIdle

NextStats ==
  \E mysqlUp \in BOOLEAN, mongoUp \in BOOLEAN : getPlatformStats(mysqlUp, mongoUp)

SpecStats == InitStats /\ [][NextStats]_vars

\* two executeTransaction calls, each on its own pooled connection
InitTx ==
  /\ now = 0
  /\ DiscIdle
  /\ AsgIdle
  /\ CreateIdle
  /\ RmwAllIdle
  /\ EnrollAllIdle
  /\ LateIdle
  /\ OpAllIdle
  /\ QuizAllIdle
  /\ StatsIdle
  /\ TxAllIdle
  /\ SummaryIdle

NextTx ==
  \/ \E r \in Requests, ok \in BOOLEAN : TxGetConnection(r, ok)
  \/ \E r \in Requests, ok \in BOOLEAN : TxBegin(r, ok)
  \/ \E r \in Requests, ok \in BOOLEAN :
       \E rows \in SUBSET TxRows(r) : TxCallback(r, rows, ok)
  \/ \E r \in Requests, ok \in BOOLEAN : TxCommit(r, ok)
  \/ \E r \in Requests, ok \in BOOLEAN : TxRollback(r, ok)
  \/ \E r \in Requests : TxRelease(r)

SpecTx == InitTx /\ [][NextTx]_vars

\* getCourseStudents over tables that satisfy the foreign keys: a submission
\* refers to a quiz of table quizzes
InitSummary ==
  /\ now = 0
  /\ DiscIdle
  /\ AsgIdle
  /\ CreateIdle
  /\ RmwAllIdle
  /\ EnrollAllIdle
  /\ LateIdle
  /\ OpAllIdle
  /\ QuizAllIdle
  /\ StatsIdle
  /\ TxAllIdle
  /\ \E enr \in [Students \X CourseIds -> EnrollmentStatuses],
        qz \in SUBSET QuizRows, sb \in SUBSET SubmissionRows :
       /\ \A x \in sb : \E q \in qz : q.quiz_id = x.quiz_id
       /\ sdata = [enr |-> enr, quizzes |-> qz, subs |-> sb]
  /\ slast = NoSummary

NextSummary ==
  \E c \in CourseIds \cup {0}, denied \in BOOLEAN : getCourseStudents(c, denied)

SpecSummary == InitSummary /\ [][NextSummary]_vars

\* two requests through logActivity-wrapped routes and their log writes
InitLog ==
  /\ now = 0
  /\ DiscIdle
  /\ AsgIdle
  /\ CreateIdle
  /\ RmwAllIdle
  /\ EnrollAllIdle
  /\ ExtraIdle

NextLog ==
  \/ \E r \in Requests, route \in LoggedRoutes, u \in LogUsers,
        status \in ResponseStatuses : WrappedJson(r, route, u, status)
  \/ \E r \in Requests, accepts \in BOOLEAN : LogWriteSettle(r, accepts)

SpecLog == InitLog /\ [][NextLog]_vars

\* two failing requests, answered by a controller's catch block or by the
\* global error handler
InitError ==
  /\ now = 0
  /\ DiscIdle
  /\ AsgIdle
  /\ CreateIdle
  /\ RmwAllIdle
  /\ EnrollAllIdle
  /\ users = [u \in UserIds |-> "none"]
  /\ activitylogs = {}
  /\ lreq = [r \in Requests |-> LogIdle]
  /\ node_env \in NodeEnvs
  /\ eresp = [r \in Requests |-> NoErrorResponse]
  /\ proc = Running({})
  /\ OpAllIdle
  /\ QuizAllIdle
  /\ StatsIdle
  /\ TxAllIdle
  /\ SummaryIdle

NextError ==
  \/ \E r \in Requests, h \in CatchingHandlers, err \in Errors :
       HandlerCatch(r, h, err)
  \/ \E r \in Requests, err \in Errors : GlobalErrorHandler(r, err)

SpecError == InitError /\ [][NextError]_vars

\* the running server, its client connections and one termination signal
InitShutdown ==
  /\ now = 0
  /\ DiscIdle
  /\ AsgIdle
  /\ CreateIdle
  /\ RmwAllIdle
  /\ EnrollAllIdle
  /\ ExtraIdle

NextShutdown ==
  \/ \E sig \in Signals : Signal(sig)
  \/ \E c \in Sockets : ConnOpen(c)
  \/ \E c \in Sockets : ConnEnd(c)
  \/ ServerClosed
  \/ \E ok \in BOOLEAN : MySQLEnded(ok)
  \/ \E ok \in BOOLEAN : MongoClosed(ok)
  \/ MongoHandlerExit
  \/ GracefulExit
  \/ ForcedExit

SpecShutdown == InitShutdown /\ [][NextShutdown]_vars

\* a discussion whose posts can also be removed
NextRemove ==
  \/ \E u \in Users, c \in RawContents : addPost(u, c)
  \/ \E p \in PostIds, c \in RawContents : editPost(p, c)
  \/ \E i \in 1..MaxPosts : removePost(i)
  \/ Tick

SpecRemove == InitDisc /\ [][NextRemove]_vars

NextDisc ==
  \/ \E u \in Users, c \in RawContents : addPost(u, c)
  \/ \E p \in PostIds, c \in RawContents : editPost(p, c)
  \/ Tick

SpecDisc == InitDisc /\ [][NextDisc]_vars

\* -------------------------------------------------------------------- claims
\* the entry of student st in doc, if any
HasSubmission(doc, st) == FindSubmission(doc, st) # 0
SubmissionOf(doc, st) == doc.submissions[FindSubmission(doc, st)]

\* C1: after any sequence of addPost and editPost calls on a discussion that
\* started with no posts and post_count 0, post_count equals the number of
\* entries in posts, in the document object and in the persisted document.
C1_PostCountIsLength ==
  /\ discussion.post_count = Len(discussion.posts)
  /\ dstore.post_count = Len(dstore.posts)

\* a thread of two posts, the last call a successful editPost
C1_Witness ==
  /\ Len(discussion.posts) = 2
  /\ dlast.op = "editPost"
  /\ dlast.outcome = "ok"

\* C2: after sequential addPost calls all post_id values are pairwise distinct,
\* the first post of an empty discussion has post_id 1, and every further post
\* has post_id = (largest post_id of the posts appended before it) + 1.
C2_PostIdsSequential ==
  LET ps == discussion.posts
  IN  /\ \A i, j \in 1..Len(ps) : i # j => ps[i].post_id # ps[j].post_id
      /\ Len(ps) > 0 => ps[1].post_id = 1
      /\ \A i \in 2..Len(ps) :
           ps[i].post_id = MaxOf({ps[j].post_id : j \in 1..(i - 1)}) + 1

\* the second addPost has just returned post_id 2
C2_Witness ==
  /\ dlast.op = "addPost"
  /\ dlast.post_id = 2
  /\ Len(discussion.posts) = 2

\* C3: submissions holds at most one entry per student_id; a successful submit
\* by a student who already has an entry overwrites that entry at its position
\* with the new content, and leaves submission_count, the length of the array
\* and the other entries unchanged.
C3_OneSubmissionPerStudent ==
  /\ [](\A i, j \in 1..Len(assignment.submissions) :
          i # j => assignment.submissions[i].student_id
                     # assignment.submissions[j].student_id)
  /\ [][\A st \in Students, x \in Texts :
          (/\ alast'.op = "addSubmission"
           /\ alast'.student_id = st
           /\ alast'.outcome = "ok"
           /\ HasSubmission(assignment, st)
           /\ addSubmission(st, x))
          => LET i == FindSubmission(assignment, st)
             IN  /\ Len(assignment'.submissions) = Len(assignment.submissions)
                 /\ assignment'.submissions[i].student_id = st
                 /\ assignment'.submissions[i].submission_text = x
                 /\ assignment'.submission_count = assignment.submission_count
                 /\ \A j \in 1..Len(assignment.submissions) :
                      j # i => assignment'.submissions[j]
                                 = assignment.submissions[j]]_vars

\* student 1, first of two entries, has resubmitted with other content
C3_Witness ==
  /\ Len(assignment.submissions) = 2
  /\ assignment.submissions[1].student_id = 1
  /\ assignment.submissions[1].submission_text = "v2"
  /\ alast.op = "addSubmission"
  /\ alast.student_id = 1
  /\ alast.outcome = "ok"
  /\ assignment.submission_count = 2

\* C4: after any sequence of addSubmission and gradeSubmission calls,
\* successful or failing, submission_count equals the length of submissions.
C4_SubmissionCountIsLength ==
  /\ assignment.submission_count = Len(assignment.submissions)
  /\ astore.submission_count = Len(astore.submissions)

\* a failing gradeSubmission on an assignment with two entries
C4_Witness ==
  /\ Len(assignment.submissions) = 2
  /\ alast.op = "gradeSubmission"
  /\ alast.outcome = "GradeOutOfRange"

\* C5: addSubmission called after due_date on an assignment with
\* allow_late_submission = false fails with the late-submission error, for a
\* new student and for one who has an entry, and leaves the document object
\* and the persisted document unchanged, with no save().
C5_LateSubmissionRejected ==
  [][\A st \in Students, x \in Texts :
       (/\ now > assignment.due_date
        /\ ~assignment.allow_late_submission
        /\ alast'.student_id = st
        /\ addSubmission(st, x))
       => /\ alast'.outcome = "LateSubmission"
          /\ ~alast'.saved
          /\ assignment' = assignment
          /\ astore' = astore]_vars

\* a late resubmission by a student who has an entry was rejected
C5_Witness ==
  /\ alast.op = "addSubmission"
  /\ alast.outcome = "LateSubmission"
  /\ HasSubmission(assignment, alast.student_id)
  /\ \E st \in Students : ~HasSubmission(assignment, st)

\* C6: gradeSubmission of an existing submission with grade > max_marks fails
\* with the grade-out-of-range error and leaves that submission's grade,
\* feedback, graded_by, graded_at and status as they were; a grade equal to
\* max_marks is accepted and recorded.
C6_GradeOutOfRange ==
  [][\A st \in Students, g \in Grades, f \in Feedbacks, by \in Graders :
       (/\ alast'.op = "gradeSubmission"
        /\ alast'.student_id = st
        /\ alast'.grade = Some(g)
        /\ HasSubmission(assignment, st)
        /\ gradeSubmission(st, g, f, by))
       => /\ g > assignment.max_marks
               => /\ alast'.outcome = "GradeOutOfRange"
                  /\ ~alast'.saved
                  /\ SubmissionOf(assignment', st) = SubmissionOf(assignment, st)
                  /\ astore' = astore
          /\ g = assignment.max_marks
               => /\ alast'.outcome = "ok"
                  /\ SubmissionOf(assignment', st).grade = Some(g)
                  /\ SubmissionOf(assignment', st).status = "graded"]_vars

\* a graded submission was graded again above max_marks and kept its grade
C6_Witness ==
  /\ alast.op = "gradeSubmission"
  /\ alast.outcome = "GradeOutOfRange"
  /\ alast.grade = Some(MaxMarks + 1)
  /\ SubmissionOf(assignment, alast.student_id).status = "graded"
  /\ SubmissionOf(assignment, alast.student_id).grade = Some(MaxMarks)

\* C9: once a submission's status is graded, no later addSubmission or
\* gradeSubmission changes that student's status back to submitted or late.
C9_GradedIsTerminal ==
  [][\A st \in Students :
       (HasSubmission(assignment, st)
          /\ SubmissionOf(assignment, st).status = "graded")
       => (HasSubmission(assignment', st)
             /\ SubmissionOf(assignment', st).status = "graded")]_vars

\* C7: creating a Discussion or an Assignment with a course_id that has no row
\* in courses fails with NotFound (404) and persists no document.
C7_MissingCourseNotFound ==
  (clast.op \in {"createDiscussion", "submitAssignment"}
     /\ \A i \in 1..Len(clast.body) : clast.body[i] # ""
     /\ clast.course_id \notin courses)
  => /\ clast.status = 404
     /\ discussions = {}
     /\ assignments = {}

\* C8: when two requests load the same document, each call addPost (or
\* addSubmission, for different students) on their copy and each save, then
\* once both have reported success the stored document holds both new entries,
\* with distinct post_ids and the counter equal to the length of the array.
C8_NoLostUpdate ==
  \A r1, r2 \in Requests :
    (r1 # r2 /\ rmw[r1].pc = "done" /\ rmw[r2].pc = "done"
       /\ rmw[r1].outcome = "ok" /\ rmw[r2].outcome = "ok"
       /\ rmw[r1].kind = rmw[r2].kind)
    => IF rmw[r1].kind = "discussion"
       THEN /\ Len(dstore.posts) = 2
            /\ dstore.posts[1].post_id # dstore.posts[2].post_id
            /\ dstore.post_count = Len(dstore.posts)
       ELSE LET s1 == rmw[r1].doc.submissions[Len(rmw[r1].doc.submissions)].student_id
                s2 == rmw[r2].doc.submissions[Len(rmw[r2].doc.submissions)].student_id
            IN  (rmw[r1].index = 0 /\ rmw[r2].index = 0 /\ s1 # s2)
                => /\ HasSubmission(astore, s1)
                   /\ HasSubmission(astore, s2)
                   /\ astore.submission_count = Len(astore.submissions)

\* the response enrollInCourse gives for an outcome of its relational queries
ExpectedStatus(rel) ==
  CASE rel = "notfound" -> 404
    [] rel = "already" -> 409
    [] rel = "inserted" -> 201
    [] rel = "dup" -> 500
    [] OTHER -> 0

\* C10: a failing activity-log write, in the logActivity middleware or in
\* logManualActivity, does not change the outcome of the operation: the status
\* and success flag of the response are those the relational outcome alone
\* determines, the response is sent exactly once, and no error of the log write
\* reaches the handler.
C10_LogFailureSwallowed ==
  \A r \in Requests :
    /\ ereq[r].sent <= 1
    /\ ~ereq[r].surfaced
    /\ ereq[r].pc = "done"
         => /\ ereq[r].sent = 1
            /\ ereq[r].status = ExpectedStatus(ereq[r].rel)

\* an enrollment answered 201 although both of its log writes failed
C10_Witness ==
  \E r \in Requests :
    /\ ereq[r].pc = "done"
    /\ ereq[r].rel = "inserted"
    /\ ereq[r].manual = "failed"
    /\ ereq[r].mw = "failed"
    /\ ereq[r].status = 201
    /\ ereq[r].sent = 1

\* C18: editPost with a postId that matches no post fails with NotFound and
\* leaves the document object and the persisted document unchanged; editPost
\* with an existing postId sets that post's content, edited_at and is_edited
\* and the parent's updated_at, and leaves every post_id, the other posts, the
\* number of posts and post_count unchanged.
C18_EditPost ==
  [][\A p \in PostIds, c \in RawContents :
       (/\ dlast'.op = "editPost"
        /\ dlast'.post_id = p
        /\ editPost(p, c))
       => LET i == FindPost(discussion, p)
          IN  IF p \notin PostIdsOf(discussion)
              THEN /\ dlast'.outcome = "NotFound"
                   /\ discussion' = discussion
                   /\ dstore' = dstore
              ELSE /\ dlast'.outcome = "ok"
                   /\ Len(discussion'.posts) = Len(discussion.posts)
                   /\ discussion'.post_count = discussion.post_count
                   /\ discussion'.updated_at = now
                   /\ discussion'.posts[i].is_edited
                   /\ discussion'.posts[i].edited_at = Some(now)
                   /\ discussion'.posts[i].post_id = p
                   /\ discussion'.posts[i].user_id = discussion.posts[i].user_id
                   /\ \A j \in 1..Len(discussion.posts) :
                        j # i => discussion'.posts[j] = discussion.posts[j]
                   /\ dstore' = discussion']_vars

\* editPost has just failed with NotFound on a thread of two posts, one of
\* which an earlier editPost edited while the other was left as it was
C18_Witness ==
  /\ dlast.op = "editPost"
  /\ dlast.outcome = "NotFound"
  /\ Len(discussion.posts) = 2
  /\ \E i, j \in 1..2 :
       /\ discussion.posts[i].is_edited
       /\ ~discussion.posts[j].is_edited
       /\ discussion.posts[j].edited_at = None

\* C19: gradeSubmission for a student who has no entry in submissions fails
\* with NotFound whatever the grade, also for a grade above max_marks, and
\* leaves the document object and the persisted document unchanged.
C19_GradeNotFound ==
  [][\A st \in Students, g \in Grades, f \in Feedbacks, by \in Graders :
       (/\ alast'.op = "gradeSubmission"
        /\ alast'.student_id = st
        /\ alast'.grade = Some(g)
        /\ ~HasSubmission(assignment, st)
        /\ gradeSubmission(st, g, f, by))
       => /\ alast'.outcome = "NotFound"
          /\ ~alast'.saved
          /\ assignment' = assignment
          /\ astore' = astore]_vars

\* a grade above max_marks for a student without an entry, while another
\* student has one, was answered NotFound
C19_Witness ==
  /\ alast.op = "gradeSubmission"
  /\ alast.outcome = "NotFound"
  /\ alast.grade = Some(MaxMarks + 1)
  /\ ~HasSubmission(assignment, alast.student_id)
  /\ Len(assignment.submissions) = 1

\* C20: the entry a successful addSubmission writes has status late exactly
\* when the call is made after due_date, which succeeds only with
\* allow_late_submission, and status submitted otherwise; it is never written
\* with status graded or resubmit.
C20_StatusOfSubmission ==
  [][\A st \in Students, x \in Texts :
       (/\ alast'.op = "addSubmission"
        /\ alast'.student_id = st
        /\ alast'.outcome = "ok"
        /\ addSubmission(st, x))
       => LET written == SubmissionOf(assignment', st)
          IN  /\ HasSubmission(assignment', st)
              /\ written.status = "late" <=> now > assignment.due_date
              /\ written.status = "submitted" <=> ~(now > assignment.due_date)
              /\ written.status \notin {"graded", "resubmit"}
              /\ now > assignment.due_date => assignment.allow_late_submission
              /\ SubmissionOf(astore', st) = written]_vars

\* one entry written before due_date and one after it, on an assignment that
\* allows late submissions
C20_Witness ==
  /\ alast.op = "addSubmission"
  /\ alast.outcome = "ok"
  /\ assignment.allow_late_submission
  /\ Len(assignment.submissions) = 2
  /\ assignment.submissions[1].status = "submitted"
  /\ assignment.submissions[2].status = "late"

\* C12: after any interleaving of enrollInCourse requests, also two requests
\* for the same pair that both pass the already-enrolled check before either
\* inserts, table enrollments holds at most one row per (student_id,
\* course_id).
C12_OneRowPerPair ==
  \A i, j \in 1..Len(enrollments) :
    (enrollments[i].student_id = enrollments[j].student_id
       /\ enrollments[i].course_id = enrollments[j].course_id) => i = j

\* two requests for the same pair both reached the INSERT; one inserted the
\* row and the unique key rejected the other
C12_Witness ==
  \E r1, r2 \in Requests :
    /\ r1 # r2
    /\ ereq[r1].student_id = ereq[r2].student_id
    /\ ereq[r1].course_id = ereq[r2].course_id
    /\ ereq[r1].rel = "inserted"
    /\ ereq[r2].rel = "dup"
    /\ ereq[r2].pc = "done"
    /\ Len(enrollments) = 1

\* C13: every enrollInCourse request that creates no row because the pair
\* already has one is answered 409 with success false, also when the row was
\* inserted by a concurrent request between this request's check and its
\* INSERT; it is never answered 201 or 500.
C13_DuplicateIs409 ==
  \A r \in Requests :
    (ereq[r].pc = "done" /\ ereq[r].rel \in {"already", "dup"})
    => /\ ereq[r].status = 409
       /\ ~Response(ereq[r].status, "").success

\* C11: within one enroll, createCourse or register operation an activity-log
\* write is started only after the relational INSERT of the operation has
\* completed, successfully or not: while a log write of the operation is
\* under way or done, its INSERT is finished or is never run, and no INSERT
\* runs after a log write of the operation was started.
C11_InsertBeforeLog ==
  /\ [](\A r \in Requests :
          (oreq[r].manual # "none" \/ oreq[r].mw # "none")
          => \/ oreq[r].ins # "none"
             \/ OpDone(oreq[r]))
  /\ [][\A r \in Requests :
          (oreq[r].ins = "none" /\ oreq'[r].ins # "none")
          => (oreq[r].manual = "none" /\ oreq[r].mw = "none")]_vars

\* two enroll requests for one pair both reached the INSERT: the manual log
\* write of the one that inserted is under way, and the other, rejected by the
\* unique key, was answered 500, which started the middleware log write
C11_Witness ==
  \E r1, r2 \in Requests :
    /\ oreq[r1].op = "enroll"
    /\ oreq[r1].ins = "ok"
    /\ oreq[r1].manual = "pending"
    /\ oreq[r2].op = "enroll"
    /\ oreq[r2].key = oreq[r1].key
    /\ oreq[r2].ins = "failed"
    /\ oreq[r2].mw = "pending"

\* C14: after any interleaving of submitQuiz requests quiz_submissions holds
\* at most one row per (quiz_id, student_id); a student who has a submission
\* for the quiz gets a failure response and no second row; and no row is
\* inserted for a quiz_id that does not exist.
C14_OneSubmissionPerQuiz ==
  /\ [](\A i, j \in 1..Len(quiz_submissions) :
          (quiz_submissions[i].quiz_id = quiz_submissions[j].quiz_id
             /\ quiz_submissions[i].student_id = quiz_submissions[j].student_id)
          => i = j)
  /\ [](\A i \in 1..Len(quiz_submissions) :
          quiz_submissions[i].quiz_id \in quizzes)
  /\ [][\A r \in Requests :
          (qreq[r].pc = "idle" /\ qreq'[r].pc = "done"
             /\ Submitted(quiz_submissions, qreq'[r].quiz_id,
                          qreq'[r].student_id))
          => /\ qreq'[r].status >= 400
             /\ quiz_submissions' = quiz_submissions]_vars

\* both requests were made, with answers, by a student who has a row for an
\* existing quiz: both were refused and the table still holds the one row
C14_Witness ==
  /\ Len(quiz_submissions) = 1
  /\ \A r \in Requests :
       /\ qreq[r].pc = "done"
       /\ qreq[r].answers
       /\ qreq[r].quiz_id = 1
       /\ qreq[r].student_id = 1
       /\ qreq[r].status >= 400

\* C15: getPlatformStats computes the two halves independently: when the
\* queries of one store fail and the other store answers, the response is a
\* report that holds the counts of the working store and marks the failed
\* half absent.
C15_PartialReport ==
  (plast.op = "getPlatformStats" /\ plast.mysql_up # plast.mongo_up)
  => /\ plast.success
     /\ plast.mysql_up
          => /\ plast.mysql_stats
                  = Some([courses |-> rowcounts.courses,
                          enrollments |-> rowcounts.enrollments])
             /\ plast.mongodb_stats = None
     /\ plast.mongo_up
          => /\ plast.mongodb_stats
                  = Some([activity_logs |-> rowcounts.activity_logs,
                          discussions |-> rowcounts.discussions])
             /\ plast.mysql_stats = None

\* C16: executeTransaction(callback) commits the effects of callback if and
\* only if callback resolved and the commit succeeded; if beginTransaction,
\* callback or commit throws, the transaction is rolled back, nothing of it is
\* committed and that error is rethrown to the caller.
C16_TransactionAtomic ==
  \A r \in Requests :
    tx[r].pc = "done"
    => /\ (TxRows(r) \cap committed # {})
            => (tx[r].callback = "resolved" /\ tx[r].commit = "resolved")
       /\ tx[r].commit = "resolved" => tx[r].outcome = "resolved"
       /\ tx[r].thrown \in {"begin", "callback", "commit"}
            => /\ tx[r].rollback = "resolved"
               /\ tx[r].pending = {}
               /\ TxRows(r) \cap committed = {}
               /\ tx[r].outcome = "rejected"
               /\ tx[r].error = tx[r].thrown

\* C17: for a course that has zero quizzes, getCourseStudents returns for
\* every actively enrolled student total_quizzes = 0 and avg_percentage =
\* null, whatever quiz submissions the student has in other courses.
C17_ZeroQuizCourse ==
  (slast.op = "getCourseStudents" /\ slast.status = 200
     /\ \A q \in sdata.quizzes : q.course_id # slast.course_id)
  => /\ \A st \in Students :
          sdata.enr[st, slast.course_id] = "active"
          => \E row \in slast.students : row.user_id = st
     /\ \A row \in slast.students :
          /\ row.avg_percentage = None
          /\ "total_quizzes" \in DOMAIN row
          /\ row.total_quizzes = 0

\* C21: a post_id once assigned to a post of a Discussion is never assigned to
\* another post of it, also when posts, the one with the highest post_id
\* included, were removed from the array before the next addPost.
C21_PostIdNeverReused ==
  [][\A u \in Users, c \in RawContents :
       (dlast'.op = "addPost" /\ addPost(u, c))
       => dlast'.post_id \notin dassigned]_vars

\* C22: every write that embeds a newly introduced user id as the author of a
\* new Post or the student of a new Submission first confirms in the
\* relational store that the user exists and, for a Submission, has role
\* student; for an absent user or another role the operation aborts and the
\* document is not mutated.
C22_EmbeddedUserValidated ==
  [][/\ \A u \in Users, c \in RawContents :
          (dlast'.op = "addPost" /\ users[u] = "none" /\ addPost(u, c))
          => (discussion' = discussion /\ dstore' = dstore)
     /\ \A st \in Students, x \in Texts :
          (/\ alast'.op = "addSubmission"
           /\ users[st] # "student"
           /\ ~HasSubmission(assignment, st)
           /\ addSubmission(st, x))
          => (assignment' = assignment /\ astore' = astore)]_vars

\* C23: activity logging is non-blocking: a request whose handler has started
\* is eventually answered although its activity-log write never completes.
\* enrollInCourse awaits logManualActivity before res.status(201).json, so a
\* write that never settles keeps the response from being sent.
C23_ResponseEventuallySent ==
  \A r \in Requests : (ereq[r].pc # "idle") ~> (ereq[r].sent >= 1)

\* C24: in the summary of course c, quizzes_submitted of an enrolled student
\* is the number of the student's submissions to quizzes of course c.  The
\* query joins quiz_submissions on the student alone, so COUNT(DISTINCT
\* qs.submission_id) also counts the submissions to quizzes of other courses.
C24_CountsOnlyCourseQuizzes ==
  (slast.op = "getCourseStudents" /\ slast.status = 200)
  => \A row \in slast.students :
       row.quizzes_submitted =
         Cardinality({qs \in sdata.subs :
                        /\ qs.student_id = row.user_id
                        /\ \E q \in sdata.quizzes :
                             /\ q.quiz_id = qs.quiz_id
                             /\ q.course_id = slast.course_id})

\* C25: every request of an authenticated user through a logActivity-wrapped
\* route gets its ActivityLog record persisted when the document store
\* accepts writes: once the write of such a request has settled with the
\* store accepting, a record of the user and the route's action is stored.
\* The quiz, assignment and discussion routes pass lowercase action names
\* that the schema's enum rejects.
C25_WrappedRequestLogged ==
  \A r \in Requests :
    (lreq[r].write \in {"saved", "rejected"} /\ lreq[r].accepted)
    => \E l \in activitylogs :
         /\ l.user_id = lreq[r].user_id
         /\ l.action = RouteAction(lreq[r].route)

\* C26: outside development mode no error response carries internal error
\* details (the exception's message or stack) in its error field.  The global
\* error handler obeys this; the catch blocks of the controllers send
\* error.message whatever NODE_ENV is.
C26_NoDetailsOutsideDevelopment ==
  node_env # "development"
  => \A r \in Requests : eresp[r].by # "none" => eresp[r].error = None

C28_OnlyOwnEntryChanges ==
  [][LET S == alast'.student_id
         Framed(old, new) ==
           /\ new.max_marks = old.max_marks
           /\ new.due_date = old.due_date
           /\ new.allow_late_submission = old.allow_late_submission
           /\ Len(new.submissions) >= Len(old.submissions)
           /\ Len(new.submissions) <= Len(old.submissions) + 1
           /\ \A j \in 1..Len(old.submissions) :
                old.submissions[j].student_id # S
                => new.submissions[j] = old.submissions[j]
           /\ \A j \in (Len(old.submissions) + 1)..Len(new.submissions) :
                new.submissions[j].student_id = S
           /\ HasSubmission(old, S)
              => new.submission_count = old.submission_count
     IN  /\ Framed(assignment, assignment')
         /\ Framed(astore, astore')]_vars

\* student 1 has resubmitted or been graded while the entry of student 2
\* stands behind it
C28_Witness ==
  /\ alast.op \in {"addSubmission", "gradeSubmission"}
  /\ alast.outcome = "ok"
  /\ alast.student_id = 1
  /\ Len(assignment.submissions) = 2
  /\ assignment.submissions[1].student_id = 1
  /\ assignment.submissions[2].student_id = 2
  /\ assignment.submissions[2].status = "graded"

\* C29: after SIGINT the process exits, unless by the forced-shutdown timer,
\* only when the HTTP server has closed and the closing of the MySQL pool
\* and of the MongoDB connection has ended.  The SIGINT listener of
\* config/mongodb exits as soon as its own mongoose close has settled.
C29_GracefulOnSigint ==
  (proc.signal = "SIGINT" /\ proc.exited \notin {"none", "timer"})
  => /\ proc.http = "closed"
     /\ proc.mysql \in {"closed", "failed"}
     /\ proc.mongo \in {"closed", "failed"}

====
